---- MODULE Spec2Model ----
(***************************************************************************)
(* Model of the Smart Espresso firmware supervisor (smart-espresso.ino,    *)
(* lines 1-707): the restart-analytics record kept in RTC memory, the      *)
(* single restart request slot, the WiFi / MQTT link managers, the health  *)
(* check run from a Ticker, the brew state machine and the cooperative     *)
(* loop that runs them.                                                    *)
(*                                                                         *)
(* Time is counted in units of Unit milliseconds; every interval of the    *)
(* sketch is a multiple of it.  A 32-bit word (the CRC) is kept as a pair  *)
(* of 16-bit halves <<hi, lo>> because TLC integers are 32-bit signed.     *)
(***************************************************************************)
EXTENDS Integers, Sequences, FiniteSets, TLC

VARIABLES
    rtcMem,                \* RTC user memory block (survives ESP.restart())
    rtcData,               \* RTCData rtcData (RAM copy)
    forceRestart,          \* bool forceRestart
    pendingRestartReason,  \* RestartReason pendingRestartReason
    currentState,          \* State currentState
    eventStartTime,
    coffeePouredCount,
    consecutiveFailures,
    wifiReconnectCount,
    mqttReconnectCount,
    lastSuccessfulMetrics,
    lastMQTTMessage,
    bootTime,
    lastAliveTime,
    lastMemoryCheck,
    lastWiFiCheck,
    lastMQTTAttempt,
    lastRTCUpdate,         \* static local of loop()
    now,                   \* millis()
    healthTimer,           \* time at which the healthCheck Ticker last expired
    wifiUp,                \* WiFi.status() == WL_CONNECTED
    mqttConn,              \* client.connected()
    delivered,             \* inbound messages the broker has delivered so far
    apUp,                  \* the WiFi access point is in reach
    brokerUp,              \* the MQTT broker is in reach
    faults,                \* link and memory faults that have happened so far
    received,              \* the payload the last client.loop() handed to callback
    powerOnPulses,         \* pulses powerOnCafeteria() has put on the powerOn pin
    corruption,            \* the byte of the RTC block that has been damaged, if any
    publishAttempts,       \* results of the client.publish() calls of the last tick
    heapSeen,              \* heap readings taken by the last checkMemory()
    startAttempt,          \* setupWiFi(): millis() when the wait for the station began
    wdtFeeds,              \* ESP.wdtFeed() calls of the wait of setupWiFi()
    lastCheckpoint,        \* history: coffeePouredTotal of the last periodic update
    request,               \* history: the request that set forceRestart
    wifiFailedAttempts,    \* history: failed setupWiFi() calls in a row
    pc                     \* position of the sketch: "boot" or a step of loop()

vars == << rtcMem, rtcData, forceRestart, pendingRestartReason, currentState,
           eventStartTime, coffeePouredCount, consecutiveFailures,
           wifiReconnectCount, mqttReconnectCount, lastSuccessfulMetrics,
           lastMQTTMessage, bootTime, lastAliveTime, lastMemoryCheck,
           lastWiFiCheck, lastMQTTAttempt, lastRTCUpdate, now, healthTimer,
           wifiUp, mqttConn, apUp, brokerUp, delivered, faults, received,
           powerOnPulses, corruption, publishAttempts, heapSeen,
           startAttempt, wdtFeeds,
           lastCheckpoint,
           request, wifiFailedAttempts, pc >>

(***************************************************************************)
(* Bounds of the model.                                                    *)
(***************************************************************************)
\* uptime per boot, in time units, after which the clock stops advancing
MaxUptime == 72
\* supervised restarts recorded before the model stops restarting
MaxRestarts == 2
\* cups brewed (session + all-time) before further "on" commands are withheld
MaxCoffee == 2
\* inbound messages delivered in one run of the model
MaxMessages == 2
\* faults in one run of the model: the access point or the broker lost or
\* found again, a failed publish, an unhealthy heap reading
MaxFaults == 1
\* how long before the wrap of millis() the run across the wrap is taken up
WrapLead == 36

(***************************************************************************)
(* Program constants.                                                      *)
(***************************************************************************)
\* milliseconds per model time unit
Unit == 5000
\* wrap of the 32-bit millis() counter, in time units (2^32 ms)
MillisMod == 858993

aliveInterval == 60000 \div Unit
memoryCheckInterval == 300000 \div Unit
wifiCheckInterval == 30000 \div Unit
mqttRetryInterval == 5000 \div Unit
coffeeWaitTime == 150000 \div Unit
stateTimeout == 300000 \div Unit
wifiTimeout == 30000 \div Unit
healthCheckInterval == 120000 \div Unit
maxSilentTime == 300000 \div Unit
maxMQTTSilentTime == 600000 \div Unit
rtcUpdateInterval == 600000 \div Unit
dayInterval == 86400000 \div Unit
minFreeHeap == 1000
maxFragmentation == 85
wifiFailureLimit == 5
wifiReconnectLimit == 20
mqttReconnectLimit == 50

RESTART_UNKNOWN == 0
RESTART_USER == 1
RESTART_WATCHDOG == 2
RESTART_MEMORY == 3
RESTART_WIFI == 4
RESTART_MQTT == 5
RESTART_HEALTH == 6
RESTART_POWER_ON == 7
RestartReason == RESTART_UNKNOWN .. RESTART_POWER_ON

State == {"IDLE", "WAITING", "POURING"}


(***************************************************************************)
(* CRC32 of the RTC block (calculateCRC32, bit by bit, MSB first,          *)
(* polynomial 0x04c11db7, initial value 0xffffffff, no final xor).         *)
(***************************************************************************)
\* bitwise exclusive or of two 16-bit values
Xor16(a, b) ==
    (((a \div 1) + (b \div 1)) % 2) * 1 +
    (((a \div 2) + (b \div 2)) % 2) * 2 +
    (((a \div 4) + (b \div 4)) % 2) * 4 +
    (((a \div 8) + (b \div 8)) % 2) * 8 +
    (((a \div 16) + (b \div 16)) % 2) * 16 +
    (((a \div 32) + (b \div 32)) % 2) * 32 +
    (((a \div 64) + (b \div 64)) % 2) * 64 +
    (((a \div 128) + (b \div 128)) % 2) * 128 +
    (((a \div 256) + (b \div 256)) % 2) * 256 +
    (((a \div 512) + (b \div 512)) % 2) * 512 +
    (((a \div 1024) + (b \div 1024)) % 2) * 1024 +
    (((a \div 2048) + (b \div 2048)) % 2) * 2048 +
    (((a \div 4096) + (b \div 4096)) % 2) * 4096 +
    (((a \div 8192) + (b \div 8192)) % 2) * 8192 +
    (((a \div 16384) + (b \div 16384)) % 2) * 16384 +
    (((a \div 32768) + (b \div 32768)) % 2) * 32768

\* crc <<= 1 on a 32-bit value held as <<hi, lo>>
ShiftLeft(crc) ==
    << ((crc[1] % 32768) * 2) + (crc[2] \div 32768), (crc[2] % 32768) * 2 >>

\* crc ^= 0x04c11db7   (0x04c1 = 1217, 0x1db7 = 7607)
XorPoly(crc) == << Xor16(crc[1], 1217), Xor16(crc[2], 7607) >>

\* one pass of the inner loop: bit = (crc & 0x80000000) != 0, flipped when
\* the data bit is set; shift; xor the polynomial when bit is true.  The
\* value of crc is taken once (c), so that a chain of passes is evaluated
\* pass by pass
CrcBit(crc, dataBit) ==
    CHOOSE next \in
        { IF ((c[1] \div 32768) + dataBit) % 2 = 1
          THEN XorPoly(ShiftLeft(c))
          ELSE ShiftLeft(c) : c \in {crc} } : TRUE

\* the inner loop for (i = 0x80; i > 0; i >>= 1) over one byte c
CrcByte(crc, c) ==
    CrcBit(CrcBit(CrcBit(CrcBit(CrcBit(CrcBit(CrcBit(CrcBit(crc,
        (c \div 128) % 2), (c \div 64) % 2), (c \div 32) % 2), (c \div 16) % 2),
        (c \div 8) % 2), (c \div 4) % 2), (c \div 2) % 2), c % 2)

\* the outer loop while (length--) over data[from .. to], entered with crc;
\* the range is split in two, and crc is taken once on entry (c), so that
\* the evaluation stays shallow
RECURSIVE CrcBytes(_, _, _, _)
CrcBytes(crc, data, from, to) ==
    CHOOSE last \in
        { IF from > to THEN c
          ELSE IF from = to THEN CrcByte(c, data[from])
          ELSE CrcBytes(CrcBytes(c, data, from, (from + to) \div 2),
                        data, ((from + to) \div 2) + 1, to) : c \in {crc} } : TRUE

\* calculateCRC32(data, length): crc = 0xffffffff, then the loop
calculateCRC32(data, length) ==
    CHOOSE crc \in
        { CrcBytes(<< 65535, 65535 >>, d, 1, length) : d \in {data} } : TRUE

\* a uint32_t field as its four bytes in memory (little endian)
WordBytes(v) ==
    << v % 256, (v \div 256) % 256, (v \div 65536) % 256, (v \div 16777216) % 256 >>

\* ((uint8_t*) &rtcData) + 4 : the bytes of every field after crc32
PayloadBytes(r) ==
    WordBytes(r.totalRestarts) \o WordBytes(r.watchdogRestarts) \o
    WordBytes(r.memoryRestarts) \o WordBytes(r.wifiRestarts) \o
    WordBytes(r.mqttRestarts) \o WordBytes(r.healthRestarts) \o
    WordBytes(r.userRestarts) \o WordBytes(r.unknownRestarts) \o
    WordBytes(r.lastRestartReason) \o WordBytes(r.coffeePouredTotal)

\* sizeof(rtcData) - 4
PayloadSize == 40

(***************************************************************************)
(* Persistent store.                                                       *)
(***************************************************************************)
\* the zero-initialised global RTCData rtcData
ZeroRTCData ==
    [ crc32 |-> << 0, 0 >>, totalRestarts |-> 0, watchdogRestarts |-> 0,
      memoryRestarts |-> 0, wifiRestarts |-> 0, mqttRestarts |-> 0,
      healthRestarts |-> 0, userRestarts |-> 0, unknownRestarts |-> 0,
      lastRestartReason |-> 0, coffeePouredTotal |-> 0 ]

\* contents of the RTC block after a power-on: not written by the sketch
PowerOnImages ==
    { ZeroRTCData,
      [ ZeroRTCData EXCEPT !.crc32 = << 4660, 22136 >>, !.totalRestarts = 1,
                           !.userRestarts = 1, !.lastRestartReason = RESTART_USER,
                           !.coffeePouredTotal = 1 ] }

\* readRTCData: the block is read into rtcData; true when the CRC matches
readRTCData(mem) == calculateCRC32(PayloadBytes(mem), PayloadSize) = mem.crc32

\* writeRTCData that stores the record without recomputing its CRC
writeRTCDataStaleCrc(r) == r

\* writeRTCData whose CRC does not cover the last field, coffeePouredTotal
writeRTCDataShortCrc(r) ==
    [ r EXCEPT !.crc32 = calculateCRC32(PayloadBytes(r), PayloadSize - 4) ]

\* writeRTCData: the record with its CRC recomputed, as stored in the block
writeRTCData(r) ==
    [ r EXCEPT !.crc32 = calculateCRC32(PayloadBytes(r), PayloadSize) ]

\* initRTCData that leaves lastRestartReason at RESTART_UNKNOWN
initRTCDataUnknownReason == writeRTCData(ZeroRTCData)

\* initRTCData: every counter 0, reason RESTART_POWER_ON, written
initRTCData ==
    writeRTCData([ ZeroRTCData EXCEPT !.lastRestartReason = RESTART_POWER_ON ])

\* the switch of recordRestart: the counter a reason is counted in
ReasonCounter(reason) ==
    CASE reason = RESTART_USER     -> "userRestarts"
      [] reason = RESTART_WATCHDOG -> "watchdogRestarts"
      [] reason = RESTART_MEMORY   -> "memoryRestarts"
      [] reason = RESTART_WIFI     -> "wifiRestarts"
      [] reason = RESTART_MQTT     -> "mqttRestarts"
      [] reason = RESTART_HEALTH   -> "healthRestarts"
      [] OTHER                     -> "unknownRestarts"

\* recordRestart whose switch has no default case: a reason without a
\* counter of its own is counted in totalRestarts only
recordRestartNoDefault(r, reason, count) ==
    writeRTCData([ r EXCEPT !.totalRestarts = @ + 1,
                            !.lastRestartReason = reason,
                            ![ReasonCounter(reason)] =
                                IF reason \in RESTART_USER .. RESTART_HEALTH
                                THEN @ + 1 ELSE @,
                            !.coffeePouredTotal = count ])

\* recordRestart(reason), with coffeePouredCount = count
recordRestart(r, reason, count) ==
    writeRTCData([ r EXCEPT !.totalRestarts = @ + 1,
                            !.lastRestartReason = reason,
                            ![ReasonCounter(reason)] = @ + 1,
                            !.coffeePouredTotal = count ])

\* the periodic update that stores the session count as the all-time count
checkpointRTCDataOverwriting(r, count) ==
    writeRTCData([ r EXCEPT !.coffeePouredTotal = count ])

\* the periodic update of loop(): coffeePouredTotal += coffeePouredCount
checkpointRTCData(r, count) ==
    writeRTCData([ r EXCEPT !.coffeePouredTotal = @ + count ])

\* sizeof(rtcData): the crc32 field and the ten fields after it
BlockSize == 44

\* the crc32 field as its four bytes in memory (little endian)
ChecksumBytes(crc) ==
    << crc[2] % 256, crc[2] \div 256, crc[1] % 256, crc[1] \div 256 >>

\* (uint32_t*) &rtcData : the bytes of the record as they lie in the block
BlockBytes(r) == ChecksumBytes(r.crc32) \o PayloadBytes(r)

\* no byte of the block has been damaged since the sketch wrote it
NoCorruption == [ at |-> 0, mask |-> 0 ]

\* the bytes of a block of which the byte damage.at has the bits of
\* damage.mask flipped
DamagedBytes(bytes, damage) ==
    IF damage = NoCorruption
    THEN bytes
    ELSE [ bytes EXCEPT ![damage.at] = Xor16(@, damage.mask) ]

\* ESP.rtcUserMemoryRead(0, (uint32_t*) &rtcData, sizeof(rtcData))
rtcUserMemoryRead == DamagedBytes(BlockBytes(rtcMem), corruption)

\* a uint32_t field read from the four bytes at position k
BlockWord(bytes, k) ==
    bytes[k] + 256 * bytes[k + 1] + 65536 * bytes[k + 2] + 16777216 * bytes[k + 3]

\* the crc32 field read from the first four bytes
BlockChecksum(bytes) ==
    << bytes[3] + 256 * bytes[4], bytes[1] + 256 * bytes[2] >>

\* the record that the bytes of a block are
BlockData(bytes) ==
    [ crc32 |-> BlockChecksum(bytes),
      totalRestarts |-> BlockWord(bytes, 5),
      watchdogRestarts |-> BlockWord(bytes, 9),
      memoryRestarts |-> BlockWord(bytes, 13),
      wifiRestarts |-> BlockWord(bytes, 17),
      mqttRestarts |-> BlockWord(bytes, 21),
      healthRestarts |-> BlockWord(bytes, 25),
      userRestarts |-> BlockWord(bytes, 29),
      unknownRestarts |-> BlockWord(bytes, 33),
      lastRestartReason |-> BlockWord(bytes, 37),
      coffeePouredTotal |-> BlockWord(bytes, 41) ]

\* readRTCData that compares the low half of the CRC only
readRTCBlockLowHalf(bytes) ==
    calculateCRC32(SubSeq(bytes, 5, BlockSize), PayloadSize)[2] =
        BlockChecksum(bytes)[2]

\* readRTCData on the bytes read from the block: the CRC of the bytes after
\* the crc32 field against the crc32 field
readRTCBlock(bytes) ==
    calculateCRC32(SubSeq(bytes, 5, BlockSize), PayloadSize) = BlockChecksum(bytes)

\* readRTCData() in the state of the sketch
rtcBlockValid ==
    IF corruption = NoCorruption
    THEN readRTCData(rtcMem)
    ELSE readRTCBlock(rtcUserMemoryRead)

\* what rtcData holds after a readRTCData() that returned true
rtcBlockData ==
    IF corruption = NoCorruption THEN rtcMem ELSE BlockData(rtcUserMemoryRead)

\* nothing has been written by the periodic update since the record was
\* last initialised
NoCheckpoint == [ written |-> FALSE, total |-> 0, reset |-> FALSE ]

(***************************************************************************)
(* Clock.                                                                  *)
(***************************************************************************)
\* unsigned subtraction on the millis() counter
TimeDiff(a, b) == (a - b) % MillisMod

\* the counter d time units after t
TimeAdd(t, d) == (t + d) % MillisMod

\* timeElapsed(startTime, interval), currentTime = millis()
timeElapsed(startTime, interval) ==
    LET currentTime == now
    IN  (TimeDiff(currentTime, startTime) >= interval) \/ (currentTime < startTime)

(***************************************************************************)
(* Inputs of the environment.                                              *)
(***************************************************************************)
\* payloads delivered to callback(): the four commands and any other text
Commands == {"on", "reset", "restart", "ping", "status"}

\* time units that pass from one iteration of loop() to the next one the
\* model looks at: delay(50) is far below one unit, and the iterations of
\* one WiFi check interval in which nothing else happens are passed over
LoopDelays == {wifiCheckInterval}

\* ESP.getFreeHeap() and ESP.getMaxFreeBlockSize() readings
HeapReadings ==
    { [freeHeap |-> 30000, maxFreeBlockSize |-> 28000],
      [freeHeap |-> 800,   maxFreeBlockSize |-> 700],
      [freeHeap |-> 20000, maxFreeBlockSize |-> 2000] }

\* uint8_t heapFragmentation = 100 - (maxFreeBlockSize * 100) / freeHeap
heapFragmentation(h) == (100 - (h.maxFreeBlockSize * 100) \div h.freeHeap) % 256

\* for (int attempt = 0; attempt < 3; attempt++)
publishTries == 3

\* what the client.publish() calls of one publishMetrics() would answer:
\* published, failed with the connection kept, or failed with it lost
PublishAnswers == [ 1 .. publishTries -> {"ok", "fail", "lost"} ]

\* the publish loop that goes on to the next attempt after the connection
\* has been lost
RECURSIVE publishLoopNoBreak(_, _)
publishLoopNoBreak(answers, attempt) ==
    IF attempt >= publishTries
    THEN << >>
    ELSE IF answers[attempt + 1] = "ok"
    THEN << answers[attempt + 1] >>
    ELSE << answers[attempt + 1] >> \o publishLoopNoBreak(answers, attempt + 1)

\* the publish loop of publishMetrics from attempt on: the results of the
\* client.publish() calls it makes; it returns at the first result that is
\* true and breaks at the first that finds the client disconnected
RECURSIVE publishLoop(_, _)
publishLoop(answers, attempt) ==
    IF attempt >= publishTries
    THEN << >>
    ELSE IF answers[attempt + 1] = "ok" \/ answers[attempt + 1] = "lost"
    THEN << answers[attempt + 1] >>
    ELSE << answers[attempt + 1] >> \o publishLoop(answers, attempt + 1)

\* the runs of the publish loop of publishMetrics
PublishOutcomes == { publishLoop(answers, 0) : answers \in PublishAnswers }

\* client.loop() delivered nothing
NoMessage == "none"

(***************************************************************************)
(* The restart request slot.                                               *)
(***************************************************************************)
\* no request has been raised since the last boot
NoRequest == [ reason |-> RESTART_UNKNOWN, total |-> 0, user |-> 0,
               reset |-> FALSE, pending |-> FALSE ]

\* pendingRestartReason = reason; forceRestart = true;  the history keeps
\* the first request raised since the slot was last empty, with the
\* restart counters as they stood then
RequestRestart(reason) ==
    /\ pendingRestartReason' = reason
    /\ forceRestart' = TRUE
    /\ request' = IF forceRestart THEN request
                  ELSE [ reason |-> reason, total |-> rtcData.totalRestarts,
                         user |-> rtcData.userRestarts, reset |-> FALSE,
                         pending |-> TRUE ]

(***************************************************************************)
(* Boot.                                                                   *)
(***************************************************************************)
\* the initial values of the globals of the sketch (a power-on or a
\* restart runs the C initialisers again) and of the peripherals
Boot ==
    /\ rtcData = ZeroRTCData
    /\ forceRestart = FALSE
    /\ pendingRestartReason = RESTART_UNKNOWN
    /\ currentState = "IDLE"
    /\ eventStartTime = 0
    /\ coffeePouredCount = 0
    /\ consecutiveFailures = 0
    /\ wifiReconnectCount = 0
    /\ mqttReconnectCount = 0
    /\ lastSuccessfulMetrics = 0
    /\ lastMQTTMessage = 0
    /\ bootTime = 0
    /\ lastAliveTime = 0
    /\ lastMemoryCheck = 0
    /\ lastWiFiCheck = 0
    /\ lastMQTTAttempt = 0
    /\ lastRTCUpdate = 0
    /\ now = 0
    /\ healthTimer = 0
    /\ wifiUp = FALSE
    /\ mqttConn = FALSE
    /\ pc = "boot"

Init ==
    /\ rtcMem \in PowerOnImages
    /\ corruption = NoCorruption
    /\ lastCheckpoint = NoCheckpoint
    /\ apUp = TRUE
    /\ brokerUp = TRUE
    /\ delivered = 0
    /\ faults = 0
    /\ received = NoMessage
    /\ publishAttempts = << >>
    /\ heapSeen = << >>
    /\ startAttempt = 0
    /\ wdtFeeds = 0
    /\ powerOnPulses = 0
    /\ request = NoRequest
    /\ wifiFailedAttempts = 0
    /\ Boot

\* ESP.restart(): the RTC block is kept, everything else starts again
Reboot(mem) ==
    /\ rtcMem' = mem
    /\ corruption' = corruption
    /\ rtcData' = ZeroRTCData
    /\ forceRestart' = FALSE
    /\ pendingRestartReason' = RESTART_UNKNOWN
    /\ currentState' = "IDLE"
    /\ eventStartTime' = 0
    /\ coffeePouredCount' = 0
    /\ consecutiveFailures' = 0
    /\ wifiReconnectCount' = 0
    /\ mqttReconnectCount' = 0
    /\ lastSuccessfulMetrics' = 0
    /\ lastMQTTMessage' = 0
    /\ bootTime' = 0
    /\ lastAliveTime' = 0
    /\ lastMemoryCheck' = 0
    /\ lastWiFiCheck' = 0
    /\ lastMQTTAttempt' = 0
    /\ lastRTCUpdate' = 0
    /\ now' = 0
    /\ healthTimer' = 0
    /\ wifiUp' = FALSE
    /\ mqttConn' = FALSE
    /\ pc' = "boot"
    /\ wifiFailedAttempts' = 0
    /\ received' = NoMessage
    /\ publishAttempts' = << >>
    /\ heapSeen' = << >>
    /\ UNCHANGED << startAttempt, wdtFeeds >>
    /\ powerOnPulses' = 0
    /\ UNCHANGED << apUp, brokerUp, delivered, faults, request >>

\* setup(): load or initialise the RTC record, arm the health Ticker, set
\* the timestamps, then setupWiFi() (connected within the timeout, or
\* failed after it)
Setup ==
    /\ pc = "boot"
    /\ received' = NoMessage
    /\ publishAttempts' = << >>
    /\ heapSeen' = << >>
    /\ UNCHANGED << startAttempt, wdtFeeds >>
    /\ \E valid \in {rtcBlockValid} :
          LET loaded == IF valid THEN rtcBlockData ELSE initRTCData
          IN  /\ rtcData' = loaded
              /\ rtcMem' = loaded
              /\ corruption' = NoCorruption
              /\ lastCheckpoint' = IF valid THEN lastCheckpoint ELSE NoCheckpoint
    /\ coffeePouredCount' = 0
    /\ bootTime' = now
    /\ lastAliveTime' = now
    /\ lastMemoryCheck' = now
    /\ lastWiFiCheck' = now
    /\ lastMQTTAttempt' = 0
    /\ lastSuccessfulMetrics' = now
    /\ lastMQTTMessage' = now
    /\ healthTimer' = now
    /\ IF apUp
       THEN /\ wifiUp' = TRUE
            /\ consecutiveFailures' = 0
            /\ wifiReconnectCount' = wifiReconnectCount
            /\ now' = now
            /\ wifiFailedAttempts' = 0
       ELSE /\ wifiUp' = FALSE
            /\ consecutiveFailures' = consecutiveFailures + 1
            /\ wifiReconnectCount' = wifiReconnectCount + 1
            /\ now' = TimeAdd(now, wifiTimeout)
            /\ wifiFailedAttempts' = wifiFailedAttempts + 1
    /\ request' = NoRequest
    /\ pc' = "top"
    /\ UNCHANGED << forceRestart, pendingRestartReason, currentState,
                    eventStartTime, mqttReconnectCount, lastRTCUpdate, mqttConn,
                    apUp, brokerUp, delivered, faults, powerOnPulses >>

(***************************************************************************)
(* loop(), one action per statement of its body.                           *)
(***************************************************************************)
\* performRestart that records the restart twice
PerformRestartTwice ==
    /\ pc = "top"
    /\ forceRestart
    /\ rtcData.totalRestarts < MaxRestarts
    /\ Reboot(recordRestart(recordRestart(rtcData, pendingRestartReason,
                                          coffeePouredCount),
                            pendingRestartReason, coffeePouredCount))
    /\ lastCheckpoint' = NoCheckpoint

\* if (forceRestart) performRestart(pendingRestartReason):
\* recordRestart, then ESP.restart()
PerformRestart ==
    /\ pc = "top"
    /\ forceRestart
    /\ rtcData.totalRestarts < MaxRestarts
    /\ Reboot(recordRestart(rtcData, pendingRestartReason, coffeePouredCount))
    /\ lastCheckpoint' = NoCheckpoint

\* a reset that is not a restart of the sketch (the hardware watchdog armed
\* in setup(), the reset button): the RTC block is kept as it is
HardwareReset ==
    /\ pc # "boot"
    /\ Reboot(rtcMem)
    /\ lastCheckpoint' = [ lastCheckpoint EXCEPT !.reset = lastCheckpoint.written ]

\* loop() without the check of forceRestart at its top
FeedWatchdogUnchecked ==
    /\ pc = "top"
    /\ received' = NoMessage
    /\ publishAttempts' = << >>
    /\ heapSeen' = << >>
    /\ UNCHANGED << startAttempt, wdtFeeds >>
    /\ pc' = "loop1"
    /\ UNCHANGED << corruption, lastCheckpoint,
                    rtcMem, rtcData, forceRestart, pendingRestartReason,
                    currentState, eventStartTime, coffeePouredCount,
                    consecutiveFailures, wifiReconnectCount, mqttReconnectCount,
                    lastSuccessfulMetrics, lastMQTTMessage, bootTime,
                    lastAliveTime, lastMemoryCheck, lastWiFiCheck,
                    lastMQTTAttempt, lastRTCUpdate, now, healthTimer, wifiUp,
                    mqttConn, delivered, faults, request,
                    wifiFailedAttempts, apUp,
                    brokerUp, powerOnPulses >>

\* no restart requested: ESP.wdtFeed() and on to the first client.loop()
FeedWatchdog ==
    /\ pc = "top"
    /\ received' = NoMessage
    /\ publishAttempts' = << >>
    /\ heapSeen' = << >>
    /\ UNCHANGED << startAttempt, wdtFeeds >>
    /\ ~forceRestart
    /\ pc' = "loop1"
    /\ UNCHANGED << corruption, lastCheckpoint,
                    rtcMem, rtcData, forceRestart, pendingRestartReason,
                    currentState, eventStartTime, coffeePouredCount,
                    consecutiveFailures, wifiReconnectCount, mqttReconnectCount,
                    lastSuccessfulMetrics, lastMQTTMessage, bootTime,
                    lastAliveTime, lastMemoryCheck, lastWiFiCheck,
                    lastMQTTAttempt, lastRTCUpdate, now, healthTimer, wifiUp,
                    mqttConn, delivered, faults, request,
                    wifiFailedAttempts, apUp,
                    brokerUp, powerOnPulses >>

\* callback whose reset command also withdraws a pending restart request
callbackCancelling(message) ==
    /\ lastMQTTMessage' = now
    /\ IF message = "on" /\ currentState = "IDLE"
       THEN /\ powerOnPulses' = powerOnPulses + 1
            /\ eventStartTime' = now
            /\ currentState' = "WAITING"
            /\ UNCHANGED << corruption, lastCheckpoint,
                            rtcMem, rtcData, forceRestart, pendingRestartReason,
                            coffeePouredCount, request >>
       ELSE IF message = "on"
       THEN UNCHANGED << corruption, lastCheckpoint,
                         rtcMem, rtcData, forceRestart, pendingRestartReason,
                         currentState, eventStartTime, coffeePouredCount,
                         request, powerOnPulses >>
       ELSE IF message = "reset"
       THEN /\ currentState' = "IDLE"
            /\ coffeePouredCount' = 0
            /\ rtcData' = initRTCData
            /\ rtcMem' = initRTCData
            /\ corruption' = NoCorruption
            /\ lastCheckpoint' = NoCheckpoint
            /\ request' = IF request.pending
                          THEN [ request EXCEPT !.reset = TRUE ]
                          ELSE request
            /\ forceRestart' = FALSE
            /\ UNCHANGED << pendingRestartReason, eventStartTime,
                            powerOnPulses >>
       ELSE IF message = "restart"
       THEN /\ RequestRestart(RESTART_USER)
            /\ UNCHANGED << corruption, lastCheckpoint,
                            rtcMem, rtcData, currentState, eventStartTime,
                            coffeePouredCount, powerOnPulses >>
       ELSE UNCHANGED << corruption, lastCheckpoint,
                         rtcMem, rtcData, forceRestart, pendingRestartReason,
                         currentState, eventStartTime, coffeePouredCount,
                         request, powerOnPulses >>

\* callback that starts the heating time without recording when
callbackNoTimestamp(message) ==
    /\ lastMQTTMessage' = now
    /\ IF message = "on" /\ currentState = "IDLE"
       THEN /\ powerOnPulses' = powerOnPulses + 1
            /\ UNCHANGED eventStartTime
            /\ currentState' = "WAITING"
            /\ UNCHANGED << corruption, lastCheckpoint,
                            rtcMem, rtcData, forceRestart, pendingRestartReason,
                            coffeePouredCount, request >>
       ELSE IF message = "on"
       THEN UNCHANGED << corruption, lastCheckpoint,
                         rtcMem, rtcData, forceRestart, pendingRestartReason,
                         currentState, eventStartTime, coffeePouredCount,
                         request, powerOnPulses >>
       ELSE IF message = "reset"
       THEN /\ currentState' = "IDLE"
            /\ coffeePouredCount' = 0
            /\ rtcData' = initRTCData
            /\ rtcMem' = initRTCData
            /\ corruption' = NoCorruption
            /\ lastCheckpoint' = NoCheckpoint
            /\ request' = IF request.pending
                          THEN [ request EXCEPT !.reset = TRUE ]
                          ELSE request
            /\ UNCHANGED << forceRestart, pendingRestartReason, eventStartTime,
                            powerOnPulses >>
       ELSE IF message = "restart"
       THEN /\ RequestRestart(RESTART_USER)
            /\ UNCHANGED << corruption, lastCheckpoint,
                            rtcMem, rtcData, currentState, eventStartTime,
                            coffeePouredCount, powerOnPulses >>
       ELSE UNCHANGED << corruption, lastCheckpoint,
                         rtcMem, rtcData, forceRestart, pendingRestartReason,
                         currentState, eventStartTime, coffeePouredCount,
                         request, powerOnPulses >>

\* callback whose ignored "on" command restarts the heating time
callbackRestartingTimer(message) ==
    /\ lastMQTTMessage' = now
    /\ IF message = "on" /\ currentState = "IDLE"
       THEN /\ powerOnPulses' = powerOnPulses + 1
            /\ eventStartTime' = now
            /\ currentState' = "WAITING"
            /\ UNCHANGED << corruption, lastCheckpoint,
                            rtcMem, rtcData, forceRestart, pendingRestartReason,
                            coffeePouredCount, request >>
       ELSE IF message = "on"
       THEN /\ eventStartTime' = now
            /\ UNCHANGED << corruption, lastCheckpoint,
                            rtcMem, rtcData, forceRestart,
                            pendingRestartReason, currentState,
                            coffeePouredCount, request, powerOnPulses >>
       ELSE IF message = "reset"
       THEN /\ currentState' = "IDLE"
            /\ coffeePouredCount' = 0
            /\ rtcData' = initRTCData
            /\ rtcMem' = initRTCData
            /\ corruption' = NoCorruption
            /\ lastCheckpoint' = NoCheckpoint
            /\ request' = IF request.pending
                          THEN [ request EXCEPT !.reset = TRUE ]
                          ELSE request
            /\ UNCHANGED << forceRestart, pendingRestartReason, eventStartTime,
                            powerOnPulses >>
       ELSE IF message = "restart"
       THEN /\ RequestRestart(RESTART_USER)
            /\ UNCHANGED << corruption, lastCheckpoint,
                            rtcMem, rtcData, currentState, eventStartTime,
                            coffeePouredCount, powerOnPulses >>
       ELSE UNCHANGED << corruption, lastCheckpoint,
                         rtcMem, rtcData, forceRestart, pendingRestartReason,
                         currentState, eventStartTime, coffeePouredCount,
                         request, powerOnPulses >>

\* callback whose reset command leaves the session count as it is
callbackResetKeepingCount(message) ==
    /\ lastMQTTMessage' = now
    /\ IF message = "on" /\ currentState = "IDLE"
       THEN /\ powerOnPulses' = powerOnPulses + 1
            /\ eventStartTime' = now
            /\ currentState' = "WAITING"
            /\ UNCHANGED << corruption, lastCheckpoint,
                            rtcMem, rtcData, forceRestart, pendingRestartReason,
                            coffeePouredCount, request >>
       ELSE IF message = "on"
       THEN UNCHANGED << corruption, lastCheckpoint,
                         rtcMem, rtcData, forceRestart, pendingRestartReason,
                         currentState, eventStartTime, coffeePouredCount,
                         request, powerOnPulses >>
       ELSE IF message = "reset"
       THEN /\ currentState' = "IDLE"
            /\ coffeePouredCount' = coffeePouredCount
            /\ rtcData' = initRTCData
            /\ rtcMem' = initRTCData
            /\ corruption' = NoCorruption
            /\ lastCheckpoint' = NoCheckpoint
            /\ request' = IF request.pending
                          THEN [ request EXCEPT !.reset = TRUE ]
                          ELSE request
            /\ UNCHANGED << forceRestart, pendingRestartReason, eventStartTime,
                            powerOnPulses >>
       ELSE IF message = "restart"
       THEN /\ RequestRestart(RESTART_USER)
            /\ UNCHANGED << corruption, lastCheckpoint,
                            rtcMem, rtcData, currentState, eventStartTime,
                            coffeePouredCount, powerOnPulses >>
       ELSE UNCHANGED << corruption, lastCheckpoint,
                         rtcMem, rtcData, forceRestart, pendingRestartReason,
                         currentState, eventStartTime, coffeePouredCount,
                         request, powerOnPulses >>

\* callback whose last branch ends the brew cycle
callbackPingEndingCycle(message) ==
    /\ lastMQTTMessage' = now
    /\ IF message = "on" /\ currentState = "IDLE"
       THEN /\ powerOnPulses' = powerOnPulses + 1
            /\ eventStartTime' = now
            /\ currentState' = "WAITING"
            /\ UNCHANGED << corruption, lastCheckpoint,
                            rtcMem, rtcData, forceRestart, pendingRestartReason,
                            coffeePouredCount, request >>
       ELSE IF message = "on"
       THEN UNCHANGED << corruption, lastCheckpoint,
                         rtcMem, rtcData, forceRestart, pendingRestartReason,
                         currentState, eventStartTime, coffeePouredCount,
                         request, powerOnPulses >>
       ELSE IF message = "reset"
       THEN /\ currentState' = "IDLE"
            /\ coffeePouredCount' = 0
            /\ rtcData' = initRTCData
            /\ rtcMem' = initRTCData
            /\ corruption' = NoCorruption
            /\ lastCheckpoint' = NoCheckpoint
            /\ request' = IF request.pending
                          THEN [ request EXCEPT !.reset = TRUE ]
                          ELSE request
            /\ UNCHANGED << forceRestart, pendingRestartReason, eventStartTime,
                            powerOnPulses >>
       ELSE IF message = "restart"
       THEN /\ RequestRestart(RESTART_USER)
            /\ UNCHANGED << corruption, lastCheckpoint,
                            rtcMem, rtcData, currentState, eventStartTime,
                            coffeePouredCount, powerOnPulses >>
       ELSE /\ currentState' = "IDLE"
            /\ UNCHANGED << corruption, lastCheckpoint,
                            rtcMem, rtcData, forceRestart, pendingRestartReason,
                            eventStartTime, coffeePouredCount,
                            request, powerOnPulses >>

\* callback that leaves the reason of the restart command unset
callbackUnknownReason(message) ==
    /\ lastMQTTMessage' = now
    /\ IF message = "on" /\ currentState = "IDLE"
       THEN /\ powerOnPulses' = powerOnPulses + 1
            /\ eventStartTime' = now
            /\ currentState' = "WAITING"
            /\ UNCHANGED << corruption, lastCheckpoint,
                            rtcMem, rtcData, forceRestart, pendingRestartReason,
                            coffeePouredCount, request >>
       ELSE IF message = "on"
       THEN UNCHANGED << corruption, lastCheckpoint,
                         rtcMem, rtcData, forceRestart, pendingRestartReason,
                         currentState, eventStartTime, coffeePouredCount,
                         request, powerOnPulses >>
       ELSE IF message = "reset"
       THEN /\ currentState' = "IDLE"
            /\ coffeePouredCount' = 0
            /\ rtcData' = initRTCData
            /\ rtcMem' = initRTCData
            /\ corruption' = NoCorruption
            /\ lastCheckpoint' = NoCheckpoint
            /\ request' = IF request.pending
                          THEN [ request EXCEPT !.reset = TRUE ]
                          ELSE request
            /\ UNCHANGED << forceRestart, pendingRestartReason, eventStartTime,
                            powerOnPulses >>
       ELSE IF message = "restart"
       THEN /\ RequestRestart(RESTART_UNKNOWN)
            /\ UNCHANGED << corruption, lastCheckpoint,
                            rtcMem, rtcData, currentState, eventStartTime,
                            coffeePouredCount, powerOnPulses >>
       ELSE UNCHANGED << corruption, lastCheckpoint,
                         rtcMem, rtcData, forceRestart, pendingRestartReason,
                         currentState, eventStartTime, coffeePouredCount,
                         request, powerOnPulses >>

\* callback(topic, payload, length) with the trimmed payload message
callback(message) ==
    /\ lastMQTTMessage' = now
    /\ IF message = "on" /\ currentState = "IDLE"
       THEN /\ powerOnPulses' = powerOnPulses + 1
            /\ eventStartTime' = now
            /\ currentState' = "WAITING"
            /\ UNCHANGED << corruption, lastCheckpoint,
                            rtcMem, rtcData, forceRestart, pendingRestartReason,
                            coffeePouredCount, request >>
       ELSE IF message = "on"
       THEN UNCHANGED << corruption, lastCheckpoint,
                         rtcMem, rtcData, forceRestart, pendingRestartReason,
                         currentState, eventStartTime, coffeePouredCount,
                         request, powerOnPulses >>
       ELSE IF message = "reset"
       THEN /\ currentState' = "IDLE"
            /\ coffeePouredCount' = 0
            /\ rtcData' = initRTCData
            /\ rtcMem' = initRTCData
            /\ corruption' = NoCorruption
            /\ lastCheckpoint' = NoCheckpoint
            /\ request' = IF request.pending
                          THEN [ request EXCEPT !.reset = TRUE ]
                          ELSE request
            /\ UNCHANGED << forceRestart, pendingRestartReason, eventStartTime,
                            powerOnPulses >>
       ELSE IF message = "restart"
       THEN /\ RequestRestart(RESTART_USER)
            /\ UNCHANGED << corruption, lastCheckpoint,
                            rtcMem, rtcData, currentState, eventStartTime,
                            coffeePouredCount, powerOnPulses >>
       ELSE UNCHANGED << corruption, lastCheckpoint,
                         rtcMem, rtcData, forceRestart, pendingRestartReason,
                         currentState, eventStartTime, coffeePouredCount,
                         request, powerOnPulses >>

\* if (client.connected()) client.loop(): at most one inbound message,
\* which the broker can send while the links are up, is handed to callback()
ClientLoop(at, next) ==
    /\ pc = at
    /\ pc' = next
    /\ \E message \in Commands \cup {NoMessage} :
          /\ (message # NoMessage)
                => (mqttConn /\ wifiUp /\ brokerUp /\ delivered < MaxMessages)
          /\ delivered' = IF message = NoMessage THEN delivered ELSE delivered + 1
          /\ received' = message
          /\ publishAttempts' = << >>
          /\ heapSeen' = << >>
          /\ UNCHANGED << startAttempt, wdtFeeds >>
          /\ (message = "on" /\ currentState = "IDLE")
                => coffeePouredCount + rtcData.coffeePouredTotal < MaxCoffee
          /\ IF message = NoMessage
             THEN UNCHANGED << corruption, lastCheckpoint,
                               rtcMem, rtcData, forceRestart, pendingRestartReason,
                               currentState, eventStartTime, coffeePouredCount,
                               lastMQTTMessage, request, powerOnPulses >>
             ELSE callback(message)
    /\ UNCHANGED << consecutiveFailures, wifiReconnectCount, mqttReconnectCount,
                    lastSuccessfulMetrics, bootTime, lastAliveTime,
                    lastMemoryCheck, lastWiFiCheck, lastMQTTAttempt,
                    lastRTCUpdate, now, healthTimer, wifiUp, mqttConn,
                    faults, wifiFailedAttempts, apUp, brokerUp >>

ClientLoop1 == ClientLoop("loop1", "wifi")
ClientLoop2 == ClientLoop("loop2", "coffee")
ClientLoop3 == ClientLoop("loop3", "memory")
ClientLoop4 == ClientLoop("loop4", "delay")

\* checkWiFiConnection that forgets the failed reconnections once the
\* station is up
checkWiFiConnectionForgetting ==
    /\ pc = "wifi"
    /\ received' = NoMessage
    /\ publishAttempts' = << >>
    /\ heapSeen' = << >>
    /\ UNCHANGED << startAttempt, wdtFeeds >>
    /\ pc' = "mqtt"
    /\ IF timeElapsed(lastWiFiCheck, wifiCheckInterval)
       THEN /\ lastWiFiCheck' = now
            /\ IF ~wifiUp
               THEN IF apUp
                    THEN /\ wifiUp' = TRUE
                         /\ consecutiveFailures' = 0
                         /\ now' = now
                         /\ wifiFailedAttempts' = 0
                         /\ wifiReconnectCount' = 0
                         /\ UNCHANGED << forceRestart, pendingRestartReason,
                                         request >>
                    ELSE /\ wifiUp' = FALSE
                         /\ wifiReconnectCount' = wifiReconnectCount + 1
                         /\ consecutiveFailures' = consecutiveFailures + 2
                         /\ now' = TimeAdd(now, wifiTimeout)
                         /\ wifiFailedAttempts' = wifiFailedAttempts + 1
                         /\ IF consecutiveFailures + 2 >= wifiFailureLimit
                            THEN RequestRestart(RESTART_WIFI)
                            ELSE UNCHANGED << forceRestart, pendingRestartReason,
                                              request >>
               ELSE UNCHANGED << wifiUp, consecutiveFailures, wifiReconnectCount,
                                 forceRestart, pendingRestartReason, now,
                                 request, wifiFailedAttempts >>
       ELSE UNCHANGED << lastWiFiCheck, wifiUp, consecutiveFailures,
                         wifiReconnectCount, forceRestart, pendingRestartReason,
                         now, request, wifiFailedAttempts >>
    /\ UNCHANGED << corruption, lastCheckpoint,
                    rtcMem, rtcData, currentState, eventStartTime,
                    coffeePouredCount, mqttReconnectCount, lastSuccessfulMetrics,
                    lastMQTTMessage, bootTime, lastAliveTime, lastMemoryCheck,
                    lastMQTTAttempt, lastRTCUpdate, healthTimer, mqttConn,
                    apUp, brokerUp, delivered, faults, powerOnPulses >>

\* checkWiFiConnection that asks for a restart although the station came up
checkWiFiConnectionHasty ==
    /\ pc = "wifi"
    /\ received' = NoMessage
    /\ publishAttempts' = << >>
    /\ heapSeen' = << >>
    /\ UNCHANGED << startAttempt, wdtFeeds >>
    /\ pc' = "mqtt"
    /\ IF timeElapsed(lastWiFiCheck, wifiCheckInterval)
       THEN /\ lastWiFiCheck' = now
            /\ IF ~wifiUp
               THEN IF apUp
                    THEN /\ wifiUp' = TRUE
                         /\ consecutiveFailures' = 0
                         /\ now' = now
                         /\ wifiFailedAttempts' = 0
                         /\ UNCHANGED wifiReconnectCount
                         /\ RequestRestart(RESTART_WIFI)
                    ELSE /\ wifiUp' = FALSE
                         /\ wifiReconnectCount' = wifiReconnectCount + 1
                         /\ consecutiveFailures' = consecutiveFailures + 2
                         /\ now' = TimeAdd(now, wifiTimeout)
                         /\ wifiFailedAttempts' = wifiFailedAttempts + 1
                         /\ IF consecutiveFailures + 2 >= wifiFailureLimit
                            THEN RequestRestart(RESTART_WIFI)
                            ELSE UNCHANGED << forceRestart, pendingRestartReason,
                                              request >>
               ELSE UNCHANGED << wifiUp, consecutiveFailures, wifiReconnectCount,
                                 forceRestart, pendingRestartReason, now,
                                 request, wifiFailedAttempts >>
       ELSE UNCHANGED << lastWiFiCheck, wifiUp, consecutiveFailures,
                         wifiReconnectCount, forceRestart, pendingRestartReason,
                         now, request, wifiFailedAttempts >>
    /\ UNCHANGED << corruption, lastCheckpoint,
                    rtcMem, rtcData, currentState, eventStartTime,
                    coffeePouredCount, mqttReconnectCount, lastSuccessfulMetrics,
                    lastMQTTMessage, bootTime, lastAliveTime, lastMemoryCheck,
                    lastMQTTAttempt, lastRTCUpdate, healthTimer, mqttConn,
                    apUp, brokerUp, delivered, faults, powerOnPulses >>

\* checkWiFiConnection(), with setupWiFi() inside it: every
\* wifiCheckInterval, a link found down is reconnected; a failed
\* reconnection counts in setupWiFi and again in checkWiFiConnection
checkWiFiConnection ==
    /\ pc = "wifi"
    /\ received' = NoMessage
    /\ publishAttempts' = << >>
    /\ heapSeen' = << >>
    /\ UNCHANGED << startAttempt, wdtFeeds >>
    /\ pc' = "mqtt"
    /\ IF timeElapsed(lastWiFiCheck, wifiCheckInterval)
       THEN /\ lastWiFiCheck' = now
            /\ IF ~wifiUp
               THEN IF apUp
                    THEN /\ wifiUp' = TRUE
                         /\ consecutiveFailures' = 0
                         /\ now' = now
                         /\ wifiFailedAttempts' = 0
                         /\ UNCHANGED << wifiReconnectCount, forceRestart,
                                         pendingRestartReason, request >>
                    ELSE /\ wifiUp' = FALSE
                         /\ wifiReconnectCount' = wifiReconnectCount + 1
                         /\ consecutiveFailures' = consecutiveFailures + 2
                         /\ now' = TimeAdd(now, wifiTimeout)
                         /\ wifiFailedAttempts' = wifiFailedAttempts + 1
                         /\ IF consecutiveFailures + 2 >= wifiFailureLimit
                            THEN RequestRestart(RESTART_WIFI)
                            ELSE UNCHANGED << forceRestart, pendingRestartReason,
                                              request >>
               ELSE UNCHANGED << wifiUp, consecutiveFailures, wifiReconnectCount,
                                 forceRestart, pendingRestartReason, now,
                                 request, wifiFailedAttempts >>
       ELSE UNCHANGED << lastWiFiCheck, wifiUp, consecutiveFailures,
                         wifiReconnectCount, forceRestart, pendingRestartReason,
                         now, request, wifiFailedAttempts >>
    /\ UNCHANGED << corruption, lastCheckpoint,
                    rtcMem, rtcData, currentState, eventStartTime,
                    coffeePouredCount, mqttReconnectCount, lastSuccessfulMetrics,
                    lastMQTTMessage, bootTime, lastAliveTime, lastMemoryCheck,
                    lastMQTTAttempt, lastRTCUpdate, healthTimer, mqttConn,
                    apUp, brokerUp, delivered, faults, powerOnPulses >>

\* if (!client.connected() && WiFi.status() == WL_CONNECTED) reconnectMQTT()
reconnectMQTT ==
    /\ pc = "mqtt"
    /\ received' = NoMessage
    /\ publishAttempts' = << >>
    /\ heapSeen' = << >>
    /\ UNCHANGED << startAttempt, wdtFeeds >>
    /\ pc' = "loop2"
    /\ IF ~mqttConn /\ wifiUp /\ timeElapsed(lastMQTTAttempt, mqttRetryInterval)
       THEN /\ lastMQTTAttempt' = now
            /\ mqttReconnectCount' = mqttReconnectCount + 1
            /\ IF brokerUp
               THEN /\ mqttConn' = TRUE
                    /\ lastMQTTMessage' = now
               ELSE /\ mqttConn' = FALSE
                    /\ UNCHANGED lastMQTTMessage
       ELSE UNCHANGED << lastMQTTAttempt, mqttReconnectCount, mqttConn,
                         lastMQTTMessage >>
    /\ UNCHANGED << corruption, lastCheckpoint,
                    rtcMem, rtcData, forceRestart, pendingRestartReason,
                    currentState, eventStartTime, coffeePouredCount,
                    consecutiveFailures, wifiReconnectCount,
                    lastSuccessfulMetrics, bootTime, lastAliveTime,
                    lastMemoryCheck, lastWiFiCheck, lastRTCUpdate, now,
                    healthTimer, wifiUp, apUp, brokerUp, delivered, faults,
                    request, wifiFailedAttempts, powerOnPulses >>

\* handleCoffeeProcess that never finds the heating time over
handleCoffeeProcessNeverPours ==
    /\ pc = "coffee"
    /\ received' = NoMessage
    /\ publishAttempts' = << >>
    /\ heapSeen' = << >>
    /\ UNCHANGED << startAttempt, wdtFeeds >>
    /\ IF FALSE
       THEN /\ currentState' = "POURING"
            /\ pc' = "pouring"
       ELSE /\ pc' = "timeout"
            /\ UNCHANGED currentState
    /\ UNCHANGED << corruption, lastCheckpoint,
                    rtcMem, rtcData, forceRestart, pendingRestartReason,
                    eventStartTime, coffeePouredCount, consecutiveFailures,
                    wifiReconnectCount, mqttReconnectCount,
                    lastSuccessfulMetrics, lastMQTTMessage, bootTime,
                    lastAliveTime, lastMemoryCheck, lastWiFiCheck,
                    lastMQTTAttempt, lastRTCUpdate, now, healthTimer, wifiUp,
                    mqttConn, delivered, faults, request,
                    wifiFailedAttempts, apUp,
                    brokerUp, powerOnPulses >>

\* handleCoffeeProcess(): after coffeeWaitTime in WAITING, pourCoffee()
\* starts (currentState = POURING, relay on, delay(700))
handleCoffeeProcess ==
    /\ pc = "coffee"
    /\ received' = NoMessage
    /\ publishAttempts' = << >>
    /\ heapSeen' = << >>
    /\ UNCHANGED << startAttempt, wdtFeeds >>
    /\ IF currentState = "WAITING" /\ timeElapsed(eventStartTime, coffeeWaitTime)
       THEN /\ currentState' = "POURING"
            /\ pc' = "pouring"
       ELSE /\ pc' = "timeout"
            /\ UNCHANGED currentState
    /\ UNCHANGED << corruption, lastCheckpoint,
                    rtcMem, rtcData, forceRestart, pendingRestartReason,
                    eventStartTime, coffeePouredCount, consecutiveFailures,
                    wifiReconnectCount, mqttReconnectCount,
                    lastSuccessfulMetrics, lastMQTTMessage, bootTime,
                    lastAliveTime, lastMemoryCheck, lastWiFiCheck,
                    lastMQTTAttempt, lastRTCUpdate, now, healthTimer, wifiUp,
                    mqttConn, delivered, faults, request,
                    wifiFailedAttempts, apUp,
                    brokerUp, powerOnPulses >>

\* pourCoffee that counts the cup twice
pourCoffeeCountsTwo ==
    /\ pc = "pouring"
    /\ received' = NoMessage
    /\ publishAttempts' = << >>
    /\ heapSeen' = << >>
    /\ UNCHANGED << startAttempt, wdtFeeds >>
    /\ coffeePouredCount' = coffeePouredCount + 2
    /\ currentState' = "IDLE"
    /\ pc' = "timeout"
    /\ UNCHANGED << corruption, lastCheckpoint,
                    rtcMem, rtcData, forceRestart, pendingRestartReason,
                    eventStartTime, consecutiveFailures, wifiReconnectCount,
                    mqttReconnectCount, lastSuccessfulMetrics, lastMQTTMessage,
                    bootTime, lastAliveTime, lastMemoryCheck, lastWiFiCheck,
                    lastMQTTAttempt, lastRTCUpdate, now, healthTimer, wifiUp,
                    mqttConn, delivered, faults, request,
                    wifiFailedAttempts, apUp,
                    brokerUp, powerOnPulses >>

\* pourCoffee that gives the dispense up when a restart has been requested
pourCoffeeAbandonedOnRequest ==
    /\ pc = "pouring"
    /\ received' = NoMessage
    /\ publishAttempts' = << >>
    /\ heapSeen' = << >>
    /\ UNCHANGED << startAttempt, wdtFeeds >>
    /\ coffeePouredCount' = IF forceRestart THEN coffeePouredCount
                                           ELSE coffeePouredCount + 1
    /\ currentState' = "IDLE"
    /\ pc' = "timeout"
    /\ UNCHANGED << corruption, lastCheckpoint,
                    rtcMem, rtcData, forceRestart, pendingRestartReason,
                    eventStartTime, consecutiveFailures, wifiReconnectCount,
                    mqttReconnectCount, lastSuccessfulMetrics, lastMQTTMessage,
                    bootTime, lastAliveTime, lastMemoryCheck, lastWiFiCheck,
                    lastMQTTAttempt, lastRTCUpdate, now, healthTimer, wifiUp,
                    mqttConn, delivered, faults, request,
                    wifiFailedAttempts, apUp,
                    brokerUp, powerOnPulses >>

\* pourCoffee that returns without leaving POURING
pourCoffeeStaysPouring ==
    /\ pc = "pouring"
    /\ received' = NoMessage
    /\ publishAttempts' = << >>
    /\ heapSeen' = << >>
    /\ UNCHANGED << startAttempt, wdtFeeds >>
    /\ coffeePouredCount' = coffeePouredCount + 1
    /\ currentState' = "POURING"
    /\ pc' = "timeout"
    /\ UNCHANGED << corruption, lastCheckpoint,
                    rtcMem, rtcData, forceRestart, pendingRestartReason,
                    eventStartTime, consecutiveFailures, wifiReconnectCount,
                    mqttReconnectCount, lastSuccessfulMetrics, lastMQTTMessage,
                    bootTime, lastAliveTime, lastMemoryCheck, lastWiFiCheck,
                    lastMQTTAttempt, lastRTCUpdate, now, healthTimer, wifiUp,
                    mqttConn, delivered, faults, request,
                    wifiFailedAttempts, apUp,
                    brokerUp, powerOnPulses >>

\* the end of pourCoffee(): relay off, coffeePouredCount++, IDLE
pourCoffee ==
    /\ pc = "pouring"
    /\ received' = NoMessage
    /\ publishAttempts' = << >>
    /\ heapSeen' = << >>
    /\ UNCHANGED << startAttempt, wdtFeeds >>
    /\ coffeePouredCount' = coffeePouredCount + 1
    /\ currentState' = "IDLE"
    /\ pc' = "timeout"
    /\ UNCHANGED << corruption, lastCheckpoint,
                    rtcMem, rtcData, forceRestart, pendingRestartReason,
                    eventStartTime, consecutiveFailures, wifiReconnectCount,
                    mqttReconnectCount, lastSuccessfulMetrics, lastMQTTMessage,
                    bootTime, lastAliveTime, lastMemoryCheck, lastWiFiCheck,
                    lastMQTTAttempt, lastRTCUpdate, now, healthTimer, wifiUp,
                    mqttConn, delivered, faults, request,
                    wifiFailedAttempts, apUp,
                    brokerUp, powerOnPulses >>

\* checkStateTimeout that counts the abandoned cycle as a cup
checkStateTimeoutCounting ==
    /\ pc = "timeout"
    /\ received' = NoMessage
    /\ publishAttempts' = << >>
    /\ heapSeen' = << >>
    /\ UNCHANGED << startAttempt, wdtFeeds >>
    /\ pc' = "metrics"
    /\ IF currentState # "IDLE" /\ timeElapsed(eventStartTime, stateTimeout)
       THEN /\ currentState' = "IDLE"
            /\ coffeePouredCount' = coffeePouredCount + 1
       ELSE UNCHANGED << currentState, coffeePouredCount >>
    /\ UNCHANGED << corruption, lastCheckpoint,
                    rtcMem, rtcData, forceRestart, pendingRestartReason,
                    eventStartTime, consecutiveFailures,
                    wifiReconnectCount, mqttReconnectCount,
                    lastSuccessfulMetrics, lastMQTTMessage, bootTime,
                    lastAliveTime, lastMemoryCheck, lastWiFiCheck,
                    lastMQTTAttempt, lastRTCUpdate, now, healthTimer, wifiUp,
                    mqttConn, delivered, faults, request,
                    wifiFailedAttempts, apUp,
                    brokerUp, powerOnPulses >>

\* checkStateTimeout with a timeout shorter than the heating time
checkStateTimeoutImpatient ==
    /\ pc = "timeout"
    /\ received' = NoMessage
    /\ publishAttempts' = << >>
    /\ heapSeen' = << >>
    /\ UNCHANGED << startAttempt, wdtFeeds >>
    /\ pc' = "metrics"
    /\ IF currentState # "IDLE" /\ timeElapsed(eventStartTime, coffeeWaitTime - 1)
       THEN currentState' = "IDLE"
       ELSE UNCHANGED currentState
    /\ UNCHANGED << corruption, lastCheckpoint,
                    rtcMem, rtcData, forceRestart, pendingRestartReason,
                    eventStartTime, coffeePouredCount, consecutiveFailures,
                    wifiReconnectCount, mqttReconnectCount,
                    lastSuccessfulMetrics, lastMQTTMessage, bootTime,
                    lastAliveTime, lastMemoryCheck, lastWiFiCheck,
                    lastMQTTAttempt, lastRTCUpdate, now, healthTimer, wifiUp,
                    mqttConn, delivered, faults, request,
                    wifiFailedAttempts, apUp,
                    brokerUp, powerOnPulses >>

\* checkStateTimeout()
checkStateTimeout ==
    /\ pc = "timeout"
    /\ received' = NoMessage
    /\ publishAttempts' = << >>
    /\ heapSeen' = << >>
    /\ UNCHANGED << startAttempt, wdtFeeds >>
    /\ pc' = "metrics"
    /\ IF currentState # "IDLE" /\ timeElapsed(eventStartTime, stateTimeout)
       THEN currentState' = "IDLE"
       ELSE UNCHANGED currentState
    /\ UNCHANGED << corruption, lastCheckpoint,
                    rtcMem, rtcData, forceRestart, pendingRestartReason,
                    eventStartTime, coffeePouredCount, consecutiveFailures,
                    wifiReconnectCount, mqttReconnectCount,
                    lastSuccessfulMetrics, lastMQTTMessage, bootTime,
                    lastAliveTime, lastMemoryCheck, lastWiFiCheck,
                    lastMQTTAttempt, lastRTCUpdate, now, healthTimer, wifiUp,
                    mqttConn, delivered, faults, request,
                    wifiFailedAttempts, apUp,
                    brokerUp, powerOnPulses >>

\* sendPeriodicMetrics(), with publishMetrics() inside it
sendPeriodicMetrics ==
    /\ pc = "metrics"
    /\ received' = NoMessage
    /\ pc' = "loop3"
    /\ IF timeElapsed(lastAliveTime, aliveInterval)
       THEN /\ lastAliveTime' = now
            /\ IF ~mqttConn \/ ~wifiUp
               THEN /\ consecutiveFailures' = consecutiveFailures + 1
                    /\ publishAttempts' = << >>
                    /\ heapSeen' = << >>
                    /\ UNCHANGED << startAttempt, wdtFeeds >>
                    /\ UNCHANGED << lastSuccessfulMetrics, mqttConn, faults >>
               ELSE \E results \in PublishOutcomes :
                      LET outcome == [ attempts |-> Len(results),
                                       result |-> results[Len(results)] ]
                      IN
                      /\ publishAttempts' = results
                      /\ heapSeen' = << >>
                      /\ UNCHANGED << startAttempt, wdtFeeds >>
                      /\ outcome.result # "ok" => faults < MaxFaults
                      /\ IF outcome.result = "ok"
                         THEN /\ lastSuccessfulMetrics' = now
                              /\ consecutiveFailures' = 0
                              /\ UNCHANGED << mqttConn, faults >>
                         ELSE /\ consecutiveFailures' = consecutiveFailures + 1
                              /\ mqttConn' = (outcome.result # "lost")
                              /\ faults' = faults + 1
                              /\ UNCHANGED lastSuccessfulMetrics
       ELSE /\ publishAttempts' = << >>
            /\ heapSeen' = << >>
            /\ UNCHANGED << startAttempt, wdtFeeds >>
            /\ UNCHANGED << lastAliveTime, lastSuccessfulMetrics,
                            consecutiveFailures, mqttConn, faults >>
    /\ UNCHANGED << corruption, lastCheckpoint,
                    rtcMem, rtcData, forceRestart, pendingRestartReason,
                    currentState, eventStartTime, coffeePouredCount,
                    wifiReconnectCount, mqttReconnectCount, lastMQTTMessage,
                    bootTime, lastMemoryCheck, lastWiFiCheck, lastMQTTAttempt,
                    lastRTCUpdate, now, healthTimer, wifiUp, delivered, request,
                    wifiFailedAttempts, apUp,
                    brokerUp, powerOnPulses >>

\* checkMemory()
checkMemory ==
    /\ pc = "memory"
    /\ received' = NoMessage
    /\ publishAttempts' = << >>
    /\ UNCHANGED << startAttempt, wdtFeeds >>
    /\ pc' = "rtc"
    /\ IF timeElapsed(lastMemoryCheck, memoryCheckInterval)
       THEN /\ lastMemoryCheck' = now
            /\ \E h \in HeapReadings :
                  /\ heapSeen' = << h >>
                  /\ IF h.freeHeap < minFreeHeap
                        \/ heapFragmentation(h) > maxFragmentation
                     THEN /\ faults < MaxFaults
                          /\ faults' = faults + 1
                          /\ RequestRestart(RESTART_MEMORY)
                     ELSE UNCHANGED << forceRestart, pendingRestartReason, faults,
                                       request >>
       ELSE /\ heapSeen' = << >>
            /\ UNCHANGED << lastMemoryCheck, forceRestart, pendingRestartReason,
                            faults, request >>
    /\ UNCHANGED << corruption, lastCheckpoint,
                    rtcMem, rtcData, currentState, eventStartTime,
                    coffeePouredCount, consecutiveFailures, wifiReconnectCount,
                    mqttReconnectCount, lastSuccessfulMetrics, lastMQTTMessage,
                    bootTime, lastAliveTime, lastWiFiCheck, lastMQTTAttempt,
                    lastRTCUpdate, now, healthTimer, wifiUp, mqttConn,
                    delivered, wifiFailedAttempts, apUp,
                    brokerUp, powerOnPulses >>

\* the periodic RTC update of loop(): every rtcUpdateInterval the session
\* count is added to coffeePouredTotal, zeroed, and the record written
updateRTCData ==
    /\ pc = "rtc"
    /\ received' = NoMessage
    /\ publishAttempts' = << >>
    /\ heapSeen' = << >>
    /\ UNCHANGED << startAttempt, wdtFeeds >>
    /\ pc' = "loop4"
    /\ IF timeElapsed(lastRTCUpdate, rtcUpdateInterval)
       THEN /\ lastRTCUpdate' = now
            /\ rtcData' = checkpointRTCData(rtcData, coffeePouredCount)
            /\ rtcMem' = checkpointRTCData(rtcData, coffeePouredCount)
            /\ corruption' = NoCorruption
            /\ lastCheckpoint' = [ written |-> TRUE,
                                    total |-> rtcData.coffeePouredTotal + coffeePouredCount,
                                    reset |-> FALSE ]
            /\ coffeePouredCount' = 0
       ELSE UNCHANGED << lastRTCUpdate, rtcData, rtcMem, coffeePouredCount,
                         corruption, lastCheckpoint >>
    /\ UNCHANGED << forceRestart, pendingRestartReason, currentState,
                    eventStartTime, consecutiveFailures, wifiReconnectCount,
                    mqttReconnectCount, lastSuccessfulMetrics, lastMQTTMessage,
                    bootTime, lastAliveTime, lastMemoryCheck, lastWiFiCheck,
                    lastMQTTAttempt, now, healthTimer, wifiUp, mqttConn,
                    delivered, faults, request, wifiFailedAttempts, apUp,
                    brokerUp, powerOnPulses >>

\* the healthCheck Ticker has expired and its callback has not run yet
HealthCheckDue == TimeDiff(now, healthTimer) >= healthCheckInterval

\* delay(50) at the end of loop(): with a restart requested the next
\* iteration follows at once; otherwise time passes up to the next iteration
\* the model looks at, and a due Ticker callback runs before it starts
LoopDelay ==
    /\ pc = "delay"
    /\ received' = NoMessage
    /\ publishAttempts' = << >>
    /\ heapSeen' = << >>
    /\ UNCHANGED << startAttempt, wdtFeeds >>
    /\ pc' = "top"
    /\ IF forceRestart
       THEN now' = now
       ELSE \E d \in LoopDelays :
               /\ TimeDiff(now, bootTime) < MaxUptime
               /\ ~HealthCheckDue
               /\ now' = TimeAdd(now, d)
    /\ UNCHANGED << corruption, lastCheckpoint,
                    rtcMem, rtcData, forceRestart, pendingRestartReason,
                    currentState, eventStartTime, coffeePouredCount,
                    consecutiveFailures, wifiReconnectCount, mqttReconnectCount,
                    lastSuccessfulMetrics, lastMQTTMessage, bootTime,
                    lastAliveTime, lastMemoryCheck, lastWiFiCheck,
                    lastMQTTAttempt, lastRTCUpdate, healthTimer, wifiUp,
                    mqttConn, delivered, faults, request,
                    wifiFailedAttempts, apUp,
                    brokerUp, powerOnPulses >>

\* performHealthCheck that looks at the MQTT silence before the metrics
performHealthCheckMqttFirst ==
    /\ pc # "boot"
    /\ HealthCheckDue
    /\ healthTimer' = TimeAdd(healthTimer, healthCheckInterval)
    /\ IF timeElapsed(lastMQTTMessage, maxMQTTSilentTime)
       THEN /\ RequestRestart(RESTART_MQTT)
            /\ UNCHANGED << wifiReconnectCount, mqttReconnectCount, bootTime >>
       ELSE IF timeElapsed(lastSuccessfulMetrics, maxSilentTime)
       THEN /\ RequestRestart(RESTART_HEALTH)
            /\ UNCHANGED << wifiReconnectCount, mqttReconnectCount, bootTime >>
       ELSE IF wifiReconnectCount > wifiReconnectLimit
       THEN /\ RequestRestart(RESTART_WIFI)
            /\ UNCHANGED << wifiReconnectCount, mqttReconnectCount, bootTime >>
       ELSE IF mqttReconnectCount > mqttReconnectLimit
       THEN /\ RequestRestart(RESTART_MQTT)
            /\ UNCHANGED << wifiReconnectCount, mqttReconnectCount, bootTime >>
       ELSE IF TimeDiff(now, bootTime) > dayInterval
       THEN /\ wifiReconnectCount' = 0
            /\ mqttReconnectCount' = 0
            /\ bootTime' = now
            /\ UNCHANGED << forceRestart, pendingRestartReason, request >>
       ELSE UNCHANGED << forceRestart, pendingRestartReason, wifiReconnectCount,
                         mqttReconnectCount, bootTime, request >>
    /\ UNCHANGED << corruption, lastCheckpoint,
                    rtcMem, rtcData, currentState, eventStartTime,
                    coffeePouredCount, consecutiveFailures,
                    lastSuccessfulMetrics, lastMQTTMessage, lastAliveTime,
                    lastMemoryCheck, lastWiFiCheck, lastMQTTAttempt,
                    lastRTCUpdate, now, wifiUp, mqttConn, pc,
                    delivered, faults, wifiFailedAttempts, apUp,
                    brokerUp, powerOnPulses, received,
                    publishAttempts, heapSeen,
                    startAttempt, wdtFeeds >>

\* performHealthCheck that rolls over at 24 h sharp
performHealthCheckAtDay ==
    /\ pc # "boot"
    /\ HealthCheckDue
    /\ healthTimer' = TimeAdd(healthTimer, healthCheckInterval)
    /\ IF timeElapsed(lastSuccessfulMetrics, maxSilentTime)
       THEN /\ RequestRestart(RESTART_HEALTH)
            /\ UNCHANGED << wifiReconnectCount, mqttReconnectCount, bootTime >>
       ELSE IF timeElapsed(lastMQTTMessage, maxMQTTSilentTime)
       THEN /\ RequestRestart(RESTART_MQTT)
            /\ UNCHANGED << wifiReconnectCount, mqttReconnectCount, bootTime >>
       ELSE IF wifiReconnectCount > wifiReconnectLimit
       THEN /\ RequestRestart(RESTART_WIFI)
            /\ UNCHANGED << wifiReconnectCount, mqttReconnectCount, bootTime >>
       ELSE IF mqttReconnectCount > mqttReconnectLimit
       THEN /\ RequestRestart(RESTART_MQTT)
            /\ UNCHANGED << wifiReconnectCount, mqttReconnectCount, bootTime >>
       ELSE IF TimeDiff(now, bootTime) >= dayInterval
       THEN /\ wifiReconnectCount' = 0
            /\ mqttReconnectCount' = 0
            /\ bootTime' = now
            /\ UNCHANGED << forceRestart, pendingRestartReason, request >>
       ELSE UNCHANGED << forceRestart, pendingRestartReason, wifiReconnectCount,
                         mqttReconnectCount, bootTime, request >>
    /\ UNCHANGED << corruption, lastCheckpoint,
                    rtcMem, rtcData, currentState, eventStartTime,
                    coffeePouredCount, consecutiveFailures,
                    lastSuccessfulMetrics, lastMQTTMessage, lastAliveTime,
                    lastMemoryCheck, lastWiFiCheck, lastMQTTAttempt,
                    lastRTCUpdate, now, wifiUp, mqttConn, pc,
                    delivered, faults, wifiFailedAttempts, apUp,
                    brokerUp, powerOnPulses, received,
                    publishAttempts, heapSeen,
                    startAttempt, wdtFeeds >>

\* performHealthCheck whose rollover also forgets the consecutive failures
performHealthCheckForgiving ==
    /\ pc # "boot"
    /\ HealthCheckDue
    /\ healthTimer' = TimeAdd(healthTimer, healthCheckInterval)
    /\ IF timeElapsed(lastSuccessfulMetrics, maxSilentTime)
       THEN /\ RequestRestart(RESTART_HEALTH)
            /\ UNCHANGED << wifiReconnectCount, mqttReconnectCount, bootTime >>
       ELSE IF timeElapsed(lastMQTTMessage, maxMQTTSilentTime)
       THEN /\ RequestRestart(RESTART_MQTT)
            /\ UNCHANGED << wifiReconnectCount, mqttReconnectCount, bootTime >>
       ELSE IF wifiReconnectCount > wifiReconnectLimit
       THEN /\ RequestRestart(RESTART_WIFI)
            /\ UNCHANGED << wifiReconnectCount, mqttReconnectCount, bootTime >>
       ELSE IF mqttReconnectCount > mqttReconnectLimit
       THEN /\ RequestRestart(RESTART_MQTT)
            /\ UNCHANGED << wifiReconnectCount, mqttReconnectCount, bootTime >>
       ELSE IF TimeDiff(now, bootTime) > dayInterval
       THEN /\ wifiReconnectCount' = 0
            /\ mqttReconnectCount' = 0
            /\ bootTime' = now
            /\ UNCHANGED << forceRestart, pendingRestartReason, request >>
       ELSE UNCHANGED << forceRestart, pendingRestartReason, wifiReconnectCount,
                         mqttReconnectCount, bootTime, request >>
    /\ consecutiveFailures' =
          IF ~forceRestart' /\ bootTime' # bootTime THEN 0 ELSE consecutiveFailures
    /\ UNCHANGED << corruption, lastCheckpoint,
                    rtcMem, rtcData, currentState, eventStartTime,
                    coffeePouredCount,
                    lastSuccessfulMetrics, lastMQTTMessage, lastAliveTime,
                    lastMemoryCheck, lastWiFiCheck, lastMQTTAttempt,
                    lastRTCUpdate, now, wifiUp, mqttConn, pc,
                    delivered, faults, wifiFailedAttempts, apUp,
                    brokerUp, powerOnPulses, received,
                    publishAttempts, heapSeen,
                    startAttempt, wdtFeeds >>

\* performHealthCheck that lets the MQTT silence last one time unit longer
performHealthCheckPatient ==
    /\ pc # "boot"
    /\ HealthCheckDue
    /\ healthTimer' = TimeAdd(healthTimer, healthCheckInterval)
    /\ IF timeElapsed(lastSuccessfulMetrics, maxSilentTime)
       THEN /\ RequestRestart(RESTART_HEALTH)
            /\ UNCHANGED << wifiReconnectCount, mqttReconnectCount, bootTime >>
       ELSE IF timeElapsed(lastMQTTMessage, maxMQTTSilentTime + 1)
       THEN /\ RequestRestart(RESTART_MQTT)
            /\ UNCHANGED << wifiReconnectCount, mqttReconnectCount, bootTime >>
       ELSE IF wifiReconnectCount > wifiReconnectLimit
       THEN /\ RequestRestart(RESTART_WIFI)
            /\ UNCHANGED << wifiReconnectCount, mqttReconnectCount, bootTime >>
       ELSE IF mqttReconnectCount > mqttReconnectLimit
       THEN /\ RequestRestart(RESTART_MQTT)
            /\ UNCHANGED << wifiReconnectCount, mqttReconnectCount, bootTime >>
       ELSE IF TimeDiff(now, bootTime) > dayInterval
       THEN /\ wifiReconnectCount' = 0
            /\ mqttReconnectCount' = 0
            /\ bootTime' = now
            /\ UNCHANGED << forceRestart, pendingRestartReason, request >>
       ELSE UNCHANGED << forceRestart, pendingRestartReason, wifiReconnectCount,
                         mqttReconnectCount, bootTime, request >>
    /\ UNCHANGED << corruption, lastCheckpoint,
                    rtcMem, rtcData, currentState, eventStartTime,
                    coffeePouredCount, consecutiveFailures,
                    lastSuccessfulMetrics, lastMQTTMessage, lastAliveTime,
                    lastMemoryCheck, lastWiFiCheck, lastMQTTAttempt,
                    lastRTCUpdate, now, wifiUp, mqttConn, pc,
                    delivered, faults, wifiFailedAttempts, apUp,
                    brokerUp, powerOnPulses, received,
                    publishAttempts, heapSeen,
                    startAttempt, wdtFeeds >>

(***************************************************************************)
(* The Ticker callback and the links.                                      *)
(***************************************************************************)
\* performHealthCheck(), run by the healthCheck Ticker every
\* healthCheckInterval wherever the sketch yields
performHealthCheck ==
    /\ pc # "boot"
    /\ HealthCheckDue
    /\ healthTimer' = TimeAdd(healthTimer, healthCheckInterval)
    /\ IF timeElapsed(lastSuccessfulMetrics, maxSilentTime)
       THEN /\ RequestRestart(RESTART_HEALTH)
            /\ UNCHANGED << wifiReconnectCount, mqttReconnectCount, bootTime >>
       ELSE IF timeElapsed(lastMQTTMessage, maxMQTTSilentTime)
       THEN /\ RequestRestart(RESTART_MQTT)
            /\ UNCHANGED << wifiReconnectCount, mqttReconnectCount, bootTime >>
       ELSE IF wifiReconnectCount > wifiReconnectLimit
       THEN /\ RequestRestart(RESTART_WIFI)
            /\ UNCHANGED << wifiReconnectCount, mqttReconnectCount, bootTime >>
       ELSE IF mqttReconnectCount > mqttReconnectLimit
       THEN /\ RequestRestart(RESTART_MQTT)
            /\ UNCHANGED << wifiReconnectCount, mqttReconnectCount, bootTime >>
       ELSE IF TimeDiff(now, bootTime) > dayInterval
       THEN /\ wifiReconnectCount' = 0
            /\ mqttReconnectCount' = 0
            /\ bootTime' = now
            /\ UNCHANGED << forceRestart, pendingRestartReason, request >>
       ELSE UNCHANGED << forceRestart, pendingRestartReason, wifiReconnectCount,
                         mqttReconnectCount, bootTime, request >>
    /\ UNCHANGED << corruption, lastCheckpoint,
                    rtcMem, rtcData, currentState, eventStartTime,
                    coffeePouredCount, consecutiveFailures,
                    lastSuccessfulMetrics, lastMQTTMessage, lastAliveTime,
                    lastMemoryCheck, lastWiFiCheck, lastMQTTAttempt,
                    lastRTCUpdate, now, wifiUp, mqttConn, pc,
                    delivered, faults, wifiFailedAttempts, apUp,
                    brokerUp, powerOnPulses, received,
                    publishAttempts, heapSeen,
                    startAttempt, wdtFeeds >>

\* the access point is lost, and the station with it; or it is found again,
\* and the automatic reconnection (WiFi.setAutoReconnect(true)) has brought
\* the station up by the time the sketch looks, or has not
WiFiChange ==
    /\ faults < MaxFaults
    /\ faults' = faults + 1
    /\ apUp' = ~apUp
    /\ IF apUp \/ pc = "boot"
       THEN wifiUp' = FALSE
       ELSE wifiUp' \in BOOLEAN
    /\ UNCHANGED << corruption, lastCheckpoint,
                    rtcMem, rtcData, forceRestart, pendingRestartReason,
                    currentState, eventStartTime, coffeePouredCount,
                    consecutiveFailures, wifiReconnectCount, mqttReconnectCount,
                    lastSuccessfulMetrics, lastMQTTMessage, bootTime,
                    lastAliveTime, lastMemoryCheck, lastWiFiCheck,
                    lastMQTTAttempt, lastRTCUpdate, now, healthTimer, mqttConn,
                    brokerUp, pc, delivered, request, wifiFailedAttempts,
                    received, powerOnPulses,
                    publishAttempts, heapSeen,
                    startAttempt, wdtFeeds >>

\* the broker is lost, and the connection to it; or it is found again
BrokerChange ==
    /\ faults < MaxFaults
    /\ faults' = faults + 1
    /\ brokerUp' = ~brokerUp
    /\ mqttConn' = IF brokerUp THEN FALSE ELSE mqttConn
    /\ UNCHANGED << corruption, lastCheckpoint,
                    rtcMem, rtcData, forceRestart, pendingRestartReason,
                    currentState, eventStartTime, coffeePouredCount,
                    consecutiveFailures, wifiReconnectCount, mqttReconnectCount,
                    lastSuccessfulMetrics, lastMQTTMessage, bootTime,
                    lastAliveTime, lastMemoryCheck, lastWiFiCheck,
                    lastMQTTAttempt, lastRTCUpdate, now, healthTimer, wifiUp,
                    apUp, pc, delivered, request, wifiFailedAttempts,
                    received, powerOnPulses,
                    publishAttempts, heapSeen,
                    startAttempt, wdtFeeds >>

Next ==
    \/ Setup
    \/ PerformRestart
    \/ FeedWatchdog
    \/ ClientLoop1
    \/ checkWiFiConnection
    \/ reconnectMQTT
    \/ ClientLoop2
    \/ handleCoffeeProcess
    \/ pourCoffee
    \/ checkStateTimeout
    \/ sendPeriodicMetrics
    \/ ClientLoop3
    \/ checkMemory
    \/ updateRTCData
    \/ ClientLoop4
    \/ LoopDelay
    \/ performHealthCheck
    \/ WiFiChange
    \/ BrokerChange

Spec == Init /\ [][Next]_vars

\* the sketch with resets that are not its own: the hardware watchdog or
\* the reset button, at any point after setup()
ResetNext ==
    \/ Next
    \/ HardwareReset

ResetSpec == Init /\ [][ResetNext]_vars

\* the steps of the sketch itself: setup() and the statements of loop()
SketchStep ==
    \/ Setup
    \/ PerformRestart
    \/ FeedWatchdog
    \/ ClientLoop1
    \/ checkWiFiConnection
    \/ reconnectMQTT
    \/ ClientLoop2
    \/ handleCoffeeProcess
    \/ pourCoffee
    \/ checkStateTimeout
    \/ sendPeriodicMetrics
    \/ ClientLoop3
    \/ checkMemory
    \/ updateRTCData
    \/ ClientLoop4
    \/ LoopDelay

\* the sketch keeps running: loop() is called again and again, and every
\* statement of it returns; and the healthCheck Ticker fires when it is due
FairSpec ==
    Init /\ [][Next]_vars /\ WF_vars(SketchStep) /\ WF_vars(performHealthCheck)

(***************************************************************************)
(* The sketch across the wrap of millis(), 2^32 ms after the boot.         *)
(***************************************************************************)
\* the sketch between two iterations of loop(), every periodic task just
\* done at clock value t, both links up and no brew cycle running
Running(t) ==
    /\ rtcMem = initRTCData
    /\ corruption = NoCorruption
    /\ lastCheckpoint = NoCheckpoint
    /\ rtcData = initRTCData
    /\ forceRestart = FALSE
    /\ pendingRestartReason = RESTART_UNKNOWN
    /\ coffeePouredCount = 0
    /\ consecutiveFailures = 0
    /\ wifiReconnectCount = 0
    /\ mqttReconnectCount = 1
    /\ lastSuccessfulMetrics = t
    /\ lastMQTTMessage = t
    /\ bootTime = t
    /\ lastAliveTime = t
    /\ lastMemoryCheck = t
    /\ lastWiFiCheck = t
    /\ lastMQTTAttempt = 0
    /\ lastRTCUpdate = t
    /\ healthTimer = t
    /\ wifiUp = TRUE
    /\ mqttConn = TRUE
    /\ apUp = TRUE
    /\ brokerUp = TRUE
    /\ delivered = 0
    /\ faults = 0
    /\ received = NoMessage
    /\ publishAttempts = << >>
    /\ heapSeen = << >>
    /\ startAttempt = 0
    /\ wdtFeeds = 0
    /\ powerOnPulses = 0
    /\ request = NoRequest
    /\ wifiFailedAttempts = 0

\* the run is taken up WrapLead before the wrap, at the top of loop(); or in
\* a brew cycle started just before the wrap, at the moment the counter has
\* wrapped between handleCoffeeProcess() and checkStateTimeout()
WrapInit ==
    \/ /\ Running(MillisMod - WrapLead)
       /\ now = MillisMod - WrapLead
       /\ currentState = "IDLE"
       /\ eventStartTime = 0
       /\ pc = "top"
    \/ /\ Running(MillisMod - 1)
       /\ now = 0
       /\ currentState = "WAITING"
       /\ eventStartTime = MillisMod - 1
       /\ pc = "timeout"

WrapSpec == WrapInit /\ [][Next]_vars

(***************************************************************************)
(* The Ticker callback on its own: performHealthCheck() applied to the      *)
(* states it can find the sketch in.                                       *)
(***************************************************************************)
\* the clock at the check: a day and two checks after the boot, or shortly
\* after the wrap of millis()
HealthClocks == { dayInterval + 2 * healthCheckInterval, healthCheckInterval - 4 }

\* how long ago the metrics were last published, the last MQTT activity was
\* seen and the reconnect counters were last zeroed
MetricsAges == { 0, maxSilentTime - 1, maxSilentTime }
MessageAges == { 0, maxMQTTSilentTime - 1, maxMQTTSilentTime }
BootAges == { healthCheckInterval, dayInterval, dayInterval + healthCheckInterval }

\* the reconnect counts on both sides of their limits
WiFiReconnectCounts == { 0, wifiReconnectLimit, wifiReconnectLimit + 1 }
MqttReconnectCounts == { 0, mqttReconnectLimit, mqttReconnectLimit + 1 }

\* the clock value age before t
TimeBefore(t, age) == TimeDiff(t, age)

\* the Ticker is due during the delay(50) of an iteration of loop()
HealthInit ==
    /\ now \in HealthClocks
    /\ \E age \in MetricsAges : lastSuccessfulMetrics = TimeBefore(now, age)
    /\ \E age \in MessageAges : lastMQTTMessage = TimeBefore(now, age)
    /\ \E age \in BootAges : bootTime = TimeBefore(now, age)
    /\ wifiReconnectCount \in WiFiReconnectCounts
    /\ mqttReconnectCount \in MqttReconnectCounts
    /\ healthTimer = TimeBefore(now, healthCheckInterval)
    /\ currentState \in { "IDLE", "WAITING" }
    /\ eventStartTime = TimeBefore(now, wifiCheckInterval)
    /\ coffeePouredCount \in { 0, 1 }
    /\ powerOnPulses = coffeePouredCount + (IF currentState = "WAITING" THEN 1 ELSE 0)
    /\ consecutiveFailures \in { 0, 1 }
    /\ rtcMem = initRTCData
    /\ corruption = NoCorruption
    /\ lastCheckpoint = NoCheckpoint
    /\ rtcData = initRTCData
    /\ forceRestart = FALSE
    /\ pendingRestartReason = RESTART_UNKNOWN
    /\ lastAliveTime = now
    /\ lastMemoryCheck = now
    /\ lastWiFiCheck = now
    /\ lastMQTTAttempt = 0
    /\ lastRTCUpdate = now
    /\ wifiUp = TRUE
    /\ mqttConn = TRUE
    /\ apUp = TRUE
    /\ brokerUp = TRUE
    /\ delivered = 0
    /\ faults = 0
    /\ received = NoMessage
    /\ publishAttempts = << >>
    /\ heapSeen = << >>
    /\ startAttempt = 0
    /\ wdtFeeds = 0
    /\ request = NoRequest
    /\ wifiFailedAttempts = 0
    /\ pc = "delay"

HealthSpec == HealthInit /\ [][performHealthCheck]_vars

(***************************************************************************)
(* The restart record on its own: the operations of the sketch that write  *)
(* it, applied in any order with any reason and any session count.         *)
(***************************************************************************)
\* the record and its block are replaced; the rest of the sketch stands by
StoreStep(mem, data, checkpoint, next) ==
    /\ rtcMem' = mem
    /\ rtcData' = data
    /\ corruption' = NoCorruption
    /\ lastCheckpoint' = checkpoint
    /\ pc' = next
    /\ UNCHANGED << forceRestart, pendingRestartReason, currentState,
                    eventStartTime, coffeePouredCount, consecutiveFailures,
                    wifiReconnectCount, mqttReconnectCount,
                    lastSuccessfulMetrics, lastMQTTMessage, bootTime,
                    lastAliveTime, lastMemoryCheck, lastWiFiCheck,
                    lastMQTTAttempt, lastRTCUpdate, now, healthTimer, wifiUp,
                    mqttConn, apUp, brokerUp, delivered, faults, request,
                    wifiFailedAttempts, received, powerOnPulses,
                    publishAttempts, heapSeen,
                    startAttempt, wdtFeeds >>

\* setup(): if (!readRTCData()) initRTCData()
StoreLoad ==
    /\ pc = "boot"
    /\ \E valid \in {rtcBlockValid} :
          LET loaded == IF valid THEN rtcBlockData ELSE initRTCData
          IN  StoreStep(loaded, loaded,
                        IF valid THEN lastCheckpoint ELSE NoCheckpoint, "store")

\* performRestart(reason): recordRestart(reason), then ESP.restart()
StoreRecordRestart ==
    /\ pc = "store"
    /\ rtcData.totalRestarts < MaxRestarts
    /\ \E reason \in RestartReason, count \in 0 .. MaxCoffee :
          StoreStep(recordRestart(rtcData, reason, count), ZeroRTCData,
                    NoCheckpoint, "boot")

\* the periodic update of loop() without its writeRTCData()
StoreCheckpointUnwritten ==
    /\ pc = "store"
    /\ \E count \in 0 .. MaxCoffee :
          /\ rtcData.coffeePouredTotal + count <= MaxCoffee
          /\ StoreStep(rtcMem,
                       checkpointRTCData(rtcData, count),
                       [ written |-> TRUE,
                         total |-> rtcData.coffeePouredTotal + count,
                         reset |-> FALSE ], "store")

\* the periodic update of loop()
StoreCheckpoint ==
    /\ pc = "store"
    /\ \E count \in 0 .. MaxCoffee :
          /\ rtcData.coffeePouredTotal + count <= MaxCoffee
          /\ StoreStep(checkpointRTCData(rtcData, count),
                       checkpointRTCData(rtcData, count),
                       [ written |-> TRUE,
                         total |-> rtcData.coffeePouredTotal + count,
                         reset |-> FALSE ], "store")

\* the reset command: initRTCData()
StoreReset ==
    /\ pc = "store"
    /\ StoreStep(initRTCData, initRTCData, NoCheckpoint, "store")

StoreNext ==
    \/ StoreLoad
    \/ StoreRecordRestart
    \/ StoreCheckpoint
    \/ StoreReset
    \/ HardwareReset

StoreSpec == Init /\ [][StoreNext]_vars

(***************************************************************************)
(* The statements of loop() applied to the states they can find the        *)
(* sketch in after a long uptime: the periodic tasks on both sides of      *)
(* their intervals, the links up or down, a brew cycle under way, a        *)
(* restart request pending, and the clock before or after its wrap.        *)
(***************************************************************************)
\* the sketch is in state s
StateIs(s) ==
    /\ rtcMem = s.rtcMem
    /\ rtcData = s.rtcData
    /\ forceRestart = s.forceRestart
    /\ pendingRestartReason = s.pendingRestartReason
    /\ currentState = s.currentState
    /\ eventStartTime = s.eventStartTime
    /\ coffeePouredCount = s.coffeePouredCount
    /\ consecutiveFailures = s.consecutiveFailures
    /\ wifiReconnectCount = s.wifiReconnectCount
    /\ mqttReconnectCount = s.mqttReconnectCount
    /\ lastSuccessfulMetrics = s.lastSuccessfulMetrics
    /\ lastMQTTMessage = s.lastMQTTMessage
    /\ bootTime = s.bootTime
    /\ lastAliveTime = s.lastAliveTime
    /\ lastMemoryCheck = s.lastMemoryCheck
    /\ lastWiFiCheck = s.lastWiFiCheck
    /\ lastMQTTAttempt = s.lastMQTTAttempt
    /\ lastRTCUpdate = s.lastRTCUpdate
    /\ now = s.now
    /\ healthTimer = s.healthTimer
    /\ wifiUp = s.wifiUp
    /\ mqttConn = s.mqttConn
    /\ delivered = s.delivered
    /\ apUp = s.apUp
    /\ brokerUp = s.brokerUp
    /\ faults = s.faults
    /\ received = s.received
    /\ powerOnPulses = s.powerOnPulses
    /\ corruption = s.corruption
    /\ publishAttempts = s.publishAttempts
    /\ heapSeen = s.heapSeen
    /\ startAttempt = s.startAttempt
    /\ wdtFeeds = s.wdtFeeds
    /\ lastCheckpoint = s.lastCheckpoint
    /\ request = s.request
    /\ wifiFailedAttempts = s.wifiFailedAttempts
    /\ pc = s.pc

\* the sketch at clock value t, booted more than MaxUptime ago, every
\* periodic task just done, both links up, no brew cycle running, no
\* request pending and no inbound message left to come
SteadyState(t) ==
    [ rtcMem |-> initRTCData,
      rtcData |-> initRTCData,
      forceRestart |-> FALSE,
      pendingRestartReason |-> RESTART_UNKNOWN,
      currentState |-> "IDLE",
      eventStartTime |-> 0,
      coffeePouredCount |-> 0,
      consecutiveFailures |-> 0,
      wifiReconnectCount |-> 0,
      mqttReconnectCount |-> 1,
      lastSuccessfulMetrics |-> t,
      lastMQTTMessage |-> t,
      bootTime |-> TimeBefore(t, MaxUptime),
      lastAliveTime |-> t,
      lastMemoryCheck |-> t,
      lastWiFiCheck |-> t,
      lastMQTTAttempt |-> TimeBefore(t, MaxUptime),
      lastRTCUpdate |-> t,
      now |-> t,
      healthTimer |-> t,
      wifiUp |-> TRUE,
      mqttConn |-> TRUE,
      delivered |-> MaxMessages,
      apUp |-> TRUE,
      brokerUp |-> TRUE,
      faults |-> 0,
      received |-> NoMessage,
      powerOnPulses |-> 0,
      corruption |-> NoCorruption,
      publishAttempts |-> << >>,
      heapSeen |-> << >>,
      startAttempt |-> 0,
      wdtFeeds |-> 0,
      lastCheckpoint |-> NoCheckpoint,
      request |-> NoRequest,
      wifiFailedAttempts |-> 0,
      pc |-> "top" ]

\* the clock: two RTC update intervals after the boot, or at the first
\* iteration of loop() after the wrap of millis()
StepClocks == { 2 * rtcUpdateInterval, 0 }

\* the states of the two links and of what they connect to: a station is
\* up only in reach of its access point, a client is connected only
\* through a station that is up to a broker in reach
LinkConditions ==
    { l \in [ apUp : BOOLEAN, wifiUp : BOOLEAN, brokerUp : BOOLEAN,
              mqttConn : BOOLEAN ] :
        /\ l.wifiUp => l.apUp
        /\ l.mqttConn => (l.wifiUp /\ l.brokerUp) }

\* before checkWiFiConnection(): the last check and the last MQTT attempt
\* at several ages, the links in any condition, the reconnect counters
\* zero or not, the health check due or not, the last rollover of the
\* counters a day ago or not
LinkStates ==
    { [ SteadyState(t) EXCEPT
          !.pc = "wifi",
          !.lastWiFiCheck = TimeBefore(t, wifiAge),
          !.lastMQTTAttempt = TimeBefore(t, mqttAge),
          !.apUp = l.apUp, !.wifiUp = l.wifiUp,
          !.brokerUp = l.brokerUp, !.mqttConn = l.mqttConn,
          !.wifiReconnectCount = counts[1],
          !.mqttReconnectCount = counts[2],
          !.consecutiveFailures = counts[3],
          !.healthTimer = TimeBefore(t, healthAge),
          !.bootTime = TimeBefore(t, bootAge) ] :
        t \in StepClocks,
        wifiAge \in { 1, wifiCheckInterval - 1, wifiCheckInterval },
        mqttAge \in { 0, mqttRetryInterval },
        l \in LinkConditions,
        counts \in { << 0, 1, 0 >>, << 3, 7, 3 >> },
        healthAge \in { 0, healthCheckInterval },
        bootAge \in { MaxUptime, dayInterval + healthCheckInterval } }

\* records the sketch has written: a fresh one, and one with a restart and
\* a brew
StepRecords ==
    { initRTCData,
      checkpointRTCData(recordRestart(initRTCData, RESTART_WIFI, 0), 1) }

\* the restart request slot: empty, or holding a request of checkMemory()
PendingRequests ==
    { NoRequest,
      [ reason |-> RESTART_MEMORY, total |-> 0, user |-> 0,
        reset |-> FALSE, pending |-> TRUE ] }

\* state s with the request slot as the history r tells
WithRequest(s, r) ==
    [ s EXCEPT !.request = r,
               !.forceRestart = r.pending,
               !.pendingRestartReason = r.reason ]

\* state s in a brew cycle started age ago, after count cups
Brewing(s, age, count) ==
    [ s EXCEPT !.currentState = "WAITING",
               !.eventStartTime = TimeBefore(s.now, age),
               !.coffeePouredCount = count,
               !.powerOnPulses = count + 1 ]

\* before the periodic RTC update: the last update at both sides of the
\* interval, with or without cups poured since
CheckpointStates ==
    { [ SteadyState(t) EXCEPT
          !.pc = "rtc",
          !.lastRTCUpdate = TimeBefore(t, rtcAge),
          !.rtcMem = record, !.rtcData = record,
          !.coffeePouredCount = count,
          !.powerOnPulses = count ] :
        t \in { 2 * rtcUpdateInterval },
        rtcAge \in { rtcUpdateInterval - 1, rtcUpdateInterval },
        record \in StepRecords,
        count \in 0 .. MaxCoffee }

\* before sendPeriodicMetrics(): the last payload at both sides of the
\* interval, each link up or down, no failure counted or some, up to one
\* below the limit of checkWiFiConnection()
MetricsStates ==
    { [ SteadyState(t) EXCEPT
          !.pc = "metrics",
          !.lastAliveTime = TimeBefore(t, aliveAge),
          !.lastSuccessfulMetrics = TimeBefore(t, aliveInterval),
          !.apUp = l.apUp, !.wifiUp = l.wifiUp,
          !.brokerUp = l.brokerUp, !.mqttConn = l.mqttConn,
          !.consecutiveFailures = failures ] :
        t \in { 2 * rtcUpdateInterval },
        aliveAge \in { aliveInterval - 1, aliveInterval },
        l \in LinkConditions,
        failures \in { 0, 2, wifiFailureLimit - 1 } }

\* before a client.loop() that can hand one more message to callback():
\* idle or in a brew cycle, with or without cups poured and restarts
\* recorded, with or without a request pending
CommandStates ==
    { WithRequest(
        IF brewing
        THEN Brewing([ SteadyState(t) EXCEPT !.pc = "loop2",
                         !.delivered = MaxMessages - 1,
                         !.lastMQTTMessage = TimeBefore(t, 1),
                         !.rtcMem = record, !.rtcData = record ], 1, count)
        ELSE [ SteadyState(t) EXCEPT !.pc = "loop2",
                 !.delivered = MaxMessages - 1,
                 !.lastMQTTMessage = TimeBefore(t, 1),
                 !.rtcMem = record, !.rtcData = record,
                 !.coffeePouredCount = count, !.powerOnPulses = count ], r) :
        t \in { 2 * rtcUpdateInterval },
        brewing \in BOOLEAN,
        record \in StepRecords,
        count \in { 0, 1 },
        r \in PendingRequests }

\* before handleCoffeeProcess() in a brew cycle, at both sides of the
\* heating time: the health check due or not, the metrics silent for too
\* long or not, with or without a request pending
PourStates ==
    { WithRequest(
        Brewing([ SteadyState(t) EXCEPT
                    !.pc = "coffee",
                    !.healthTimer = TimeBefore(t, healthAge),
                    !.lastSuccessfulMetrics = TimeBefore(t, metricsAge) ],
                brewAge, count), r) :
        t \in { 2 * rtcUpdateInterval },
        healthAge \in { 0, healthCheckInterval },
        metricsAge \in { 0, maxSilentTime },
        brewAge \in { coffeeWaitTime - 1, coffeeWaitTime },
        count \in { 0, 1 },
        r \in PendingRequests }

\* before checkMemory(), at both sides of the memory check interval: the
\* health check due or not, the metrics silent for too long or not, one
\* more inbound message to come or none, with or without restarts
\* recorded and a request pending
MemoryStates ==
    { WithRequest(
        [ SteadyState(t) EXCEPT
            !.pc = "memory",
            !.lastMemoryCheck = TimeBefore(t, memoryAge),
            !.healthTimer = TimeBefore(t, healthAge),
            !.lastSuccessfulMetrics = TimeBefore(t, metricsAge),
            !.delivered = MaxMessages - toCome,
            !.rtcMem = record, !.rtcData = record ], r) :
        t \in { 2 * rtcUpdateInterval },
        memoryAge \in { memoryCheckInterval - 1, memoryCheckInterval },
        healthAge \in { 0, healthCheckInterval },
        metricsAge \in { 0, maxSilentTime },
        toCome \in { 0, 1 },
        record \in StepRecords,
        r \in PendingRequests }

\* before sendPeriodicMetrics() with a payload due and both links up: the
\* last MQTT activity at both sides of maxMQTTSilentTime, the health check
\* due or not, one more inbound message to come or none
SilentStates ==
    { [ SteadyState(t) EXCEPT
          !.pc = "metrics",
          !.lastAliveTime = TimeBefore(t, aliveInterval),
          !.lastSuccessfulMetrics = TimeBefore(t, aliveInterval),
          !.lastMQTTMessage = TimeBefore(t, silentAge),
          !.healthTimer = TimeBefore(t, healthAge),
          !.delivered = MaxMessages - toCome ] :
        t \in { 2 * rtcUpdateInterval },
        silentAge \in { maxMQTTSilentTime - 1, maxMQTTSilentTime },
        healthAge \in { 0, healthCheckInterval },
        toCome \in { 0, 1 } }

\* before handleCoffeeProcess() at the first iteration of loop() after the
\* wrap of millis(), in a brew cycle started before the wrap
WrappedPourStates ==
    { Brewing([ SteadyState(t) EXCEPT !.pc = "coffee" ], brewAge, count) :
        t \in { 0 },
        brewAge \in { 1, coffeeWaitTime - 1, coffeeWaitTime },
        count \in { 0, 1 } }

StepInit ==
    \E s \in LinkStates \cup CheckpointStates \cup MetricsStates
                \cup CommandStates \cup PourStates \cup MemoryStates
                \cup SilentStates \cup WrappedPourStates :
        StateIs(s)

\* loop() from checkWiFiConnection() on, the restart at the top of the
\* next iteration, and the Ticker callback
StepNext ==
    \/ PerformRestart
    \/ checkWiFiConnection
    \/ reconnectMQTT
    \/ ClientLoop2
    \/ handleCoffeeProcess
    \/ pourCoffee
    \/ checkStateTimeout
    \/ sendPeriodicMetrics
    \/ ClientLoop3
    \/ checkMemory
    \/ updateRTCData
    \/ ClientLoop4
    \/ LoopDelay
    \/ performHealthCheck

StepSpec == StepInit /\ [][StepNext]_vars

(***************************************************************************)
(* setupWiFi() taken pass by pass: the wait for the station, begun at any  *)
(* clock value up to the wrap of millis(), in or out of reach of the       *)
(* access point.                                                           *)
(***************************************************************************)
\* delay(500) of one pass of the wait, in milliseconds
waitDelay == 500

\* the clock when setupWiFi() is called: well before the wrap, at every
\* time unit of the last wifiTimeout before it, and just after it
WaitClocks ==
    { 2 * rtcUpdateInterval, 0 }
        \cup { MillisMod - lead : lead \in 1 .. wifiTimeout + 1 }

\* checkWiFiConnection() has found the station down and calls setupWiFi():
\* the access point in reach or not, after no or one failed reconnection
WaitStates ==
    { [ SteadyState(t) EXCEPT
          !.pc = "setupWiFi",
          !.wifiUp = FALSE, !.mqttConn = FALSE,
          !.apUp = ap,
          !.consecutiveFailures = 2 * failed,
          !.wifiReconnectCount = failed,
          !.wifiFailedAttempts = failed ] :
        t \in WaitClocks, ap \in BOOLEAN, failed \in { 0, 1 } }

WaitInit == \E s \in WaitStates : StateIs(s)

\* WiFi.disconnect(), WiFi.begin() and unsigned long startAttempt = millis()
setupWiFiBegin ==
    /\ pc = "setupWiFi"
    /\ wifiUp' = FALSE
    /\ mqttConn' = FALSE
    /\ startAttempt' = now
    /\ wdtFeeds' = 0
    /\ pc' = "wifiWait"
    /\ UNCHANGED << corruption, lastCheckpoint,
                    rtcMem, rtcData, forceRestart, pendingRestartReason,
                    currentState, eventStartTime, coffeePouredCount,
                    consecutiveFailures, wifiReconnectCount, mqttReconnectCount,
                    lastSuccessfulMetrics, lastMQTTMessage, bootTime,
                    lastAliveTime, lastMemoryCheck, lastWiFiCheck,
                    lastMQTTAttempt, lastRTCUpdate, now, healthTimer,
                    delivered, apUp, brokerUp, faults, received, powerOnPulses,
                    publishAttempts, heapSeen, request, wifiFailedAttempts >>

\* the wait loop of setupWiFi without ESP.wdtFeed()
setupWiFiWaitUnfed ==
    /\ pc = "wifiWait"
    /\ ~wifiUp /\ ~timeElapsed(startAttempt, wifiTimeout)
    /\ now' = TimeAdd(now, 1)
    /\ wdtFeeds' = wdtFeeds
    /\ wifiUp' \in (IF apUp THEN BOOLEAN ELSE { FALSE })
    /\ UNCHANGED << corruption, lastCheckpoint,
                    rtcMem, rtcData, forceRestart, pendingRestartReason,
                    currentState, eventStartTime, coffeePouredCount,
                    consecutiveFailures, wifiReconnectCount, mqttReconnectCount,
                    lastSuccessfulMetrics, lastMQTTMessage, bootTime,
                    lastAliveTime, lastMemoryCheck, lastWiFiCheck,
                    lastMQTTAttempt, lastRTCUpdate, healthTimer, mqttConn,
                    delivered, apUp, brokerUp, faults, received, powerOnPulses,
                    publishAttempts, heapSeen, startAttempt, request,
                    wifiFailedAttempts, pc >>

\* the passes of the wait loop during one time unit: delay(500) and
\* ESP.wdtFeed() each, while the station is down and the timeout has not
\* elapsed; in reach of the access point the station may come up meanwhile
setupWiFiWait ==
    /\ pc = "wifiWait"
    /\ ~wifiUp /\ ~timeElapsed(startAttempt, wifiTimeout)
    /\ now' = TimeAdd(now, 1)
    /\ wdtFeeds' = wdtFeeds + Unit \div waitDelay
    /\ wifiUp' \in (IF apUp THEN BOOLEAN ELSE { FALSE })
    /\ UNCHANGED << corruption, lastCheckpoint,
                    rtcMem, rtcData, forceRestart, pendingRestartReason,
                    currentState, eventStartTime, coffeePouredCount,
                    consecutiveFailures, wifiReconnectCount, mqttReconnectCount,
                    lastSuccessfulMetrics, lastMQTTMessage, bootTime,
                    lastAliveTime, lastMemoryCheck, lastWiFiCheck,
                    lastMQTTAttempt, lastRTCUpdate, healthTimer, mqttConn,
                    delivered, apUp, brokerUp, faults, received, powerOnPulses,
                    publishAttempts, heapSeen, startAttempt, request,
                    wifiFailedAttempts, pc >>

\* the wait is over: if (WiFi.status() == WL_CONNECTED) the failures are
\* forgotten, else one failure and one reconnection are counted
setupWiFiEnd ==
    /\ pc = "wifiWait"
    /\ wifiUp \/ timeElapsed(startAttempt, wifiTimeout)
    /\ IF wifiUp
       THEN /\ consecutiveFailures' = 0
            /\ wifiReconnectCount' = wifiReconnectCount
            /\ wifiFailedAttempts' = 0
       ELSE /\ consecutiveFailures' = consecutiveFailures + 1
            /\ wifiReconnectCount' = wifiReconnectCount + 1
            /\ wifiFailedAttempts' = wifiFailedAttempts + 1
    /\ pc' = "wifiDone"
    /\ UNCHANGED << corruption, lastCheckpoint,
                    rtcMem, rtcData, forceRestart, pendingRestartReason,
                    currentState, eventStartTime, coffeePouredCount,
                    mqttReconnectCount, lastSuccessfulMetrics, lastMQTTMessage,
                    bootTime, lastAliveTime, lastMemoryCheck, lastWiFiCheck,
                    lastMQTTAttempt, lastRTCUpdate, now, healthTimer, wifiUp,
                    mqttConn, delivered, apUp, brokerUp, faults, received,
                    powerOnPulses, publishAttempts, heapSeen, startAttempt,
                    wdtFeeds, request >>

WaitNext ==
    \/ setupWiFiBegin
    \/ setupWiFiWait
    \/ setupWiFiEnd

\* setupWiFi() runs on: delay() returns and nothing else runs meanwhile
WaitSpec == WaitInit /\ [][WaitNext]_vars /\ WF_vars(WaitNext)

(***************************************************************************)
(* The load at boot of a block of which one byte has been damaged while    *)
(* the sketch was not running.                                             *)
(***************************************************************************)
\* blocks written by the sketch: a fresh record, and a record with two
\* restarts and a brew count of two bytes
PersistedRecords ==
    { initRTCData,
      checkpointRTCData(recordRestart(recordRestart(initRTCData, RESTART_USER, 0),
                                      RESTART_HEALTH, 0), 300) }

\* any byte of the block, changed in any way
Corruptions ==
    { [ at |-> k, mask |-> m ] : k \in 1 .. BlockSize, m \in 1 .. 255 }

CorruptInit ==
    /\ rtcMem \in PersistedRecords
    /\ corruption \in Corruptions
    /\ lastCheckpoint = NoCheckpoint
    /\ apUp = TRUE
    /\ brokerUp = TRUE
    /\ delivered = 0
    /\ faults = 0
    /\ received = NoMessage
    /\ publishAttempts = << >>
    /\ heapSeen = << >>
    /\ startAttempt = 0
    /\ wdtFeeds = 0
    /\ powerOnPulses = 0
    /\ request = NoRequest
    /\ wifiFailedAttempts = 0
    /\ Boot

CorruptSpec == CorruptInit /\ [][StoreLoad]_vars

\* the sum of the per-reason restart counters of a record
RestartCounterSum(r) ==
    r.watchdogRestarts + r.memoryRestarts + r.wifiRestarts + r.mqttRestarts +
    r.healthRestarts + r.userRestarts + r.unknownRestarts

(***************************************************************************)
(* Properties.                                                             *)
(***************************************************************************)
\* C1: recordRestart folds the session brew count into the all-time count:
\* the coffeePouredTotal stored by a supervised restart is its value before
\* the restart plus the session count coffeePouredCount.
RecordRestartFoldsSessionCount ==
    [][(pc = "top" /\ pc' = "boot")
          => rtcMem'.coffeePouredTotal
                = rtcData.coffeePouredTotal + coffeePouredCount]_vars

\* C2: the first writer of the restart request wins: while a request is
\* pending, the pending reason is the reason of the request that set the flag.
FirstWriterWins ==
    forceRestart => pendingRestartReason = request.reason

\* C3 as stated: once a restart is requested, the sketch takes no step other
\* than the restart itself.
NoStepAfterRequest ==
    [][forceRestart => (pc' = pc \/ pc' = "boot")]_vars

\* C3 as amended: the steps that follow a request in its own iteration
\* still run, and at the top of the next iteration the only step the sketch
\* takes with a request pending is the restart, before any other step of
\* that iteration.
RestartDrainedAtTop ==
    [][(forceRestart /\ pc = "top" /\ pc' # pc) => pc' = "boot"]_vars

\* a restart command, raised in the middle of an iteration, has been carried
\* out at the top of the next one
UserRequestDrained ==
    pc = "boot" /\ request.pending /\ request.reason = RESTART_USER

\* C4: a restart command processed while no request is pending makes the
\* next restart a User restart: lastRestartReason is RESTART_USER, and
\* userRestarts and totalRestarts are one higher than before the command.
RestartCommandRecordedAsUser ==
    [][(pc = "top" /\ pc' = "boot" /\ request.reason = RESTART_USER)
          => /\ rtcMem'.lastRestartReason = RESTART_USER
             /\ rtcMem'.userRestarts = request.user + 1
             /\ rtcMem'.totalRestarts = request.total + 1]_vars

\* C5: in the loaded record and in the block, totalRestarts is the sum of
\* the per-reason counters after any sequence of load, initialise,
\* recordRestart (any reason), checkpoint and reset; the initialised record
\* has totalRestarts and every per-reason counter at zero.
TotalIsSumOfCounters ==
    /\ pc = "store" => /\ rtcData.totalRestarts = RestartCounterSum(rtcData)
                       /\ rtcMem.totalRestarts = RestartCounterSum(rtcMem)
    /\ initRTCData.totalRestarts = 0
    /\ RestartCounterSum(initRTCData) = 0

\* two restarts have been recorded, one of them with a reason that has no
\* counter of its own, and a checkpoint has moved cups into the total
UnknownRestartCounted ==
    /\ pc = "store"
    /\ rtcData.totalRestarts = 2
    /\ rtcData.unknownRestarts = 1
    /\ rtcData.lastRestartReason = RESTART_POWER_ON
    /\ rtcData.coffeePouredTotal = 2

\* C6: a supervised restart stores its reason, in a block that passes the
\* CRC check, before the restart; the boot that follows loads that reason;
\* and the loaded reason stays until the next restart or a reset command.
ReasonKeptAcrossRestart ==
    /\ [][(pc = "top" /\ pc' = "boot")
             => /\ rtcMem'.lastRestartReason = pendingRestartReason
                /\ readRTCData(rtcMem')]_vars
    /\ [][(pc = "boot" /\ pc' = "top" /\ request.pending)
             => rtcData'.lastRestartReason = rtcMem.lastRestartReason]_vars
    /\ [][(pc # "boot" /\ pc' # "boot" /\ rtcData' # initRTCData)
             => /\ rtcData'.lastRestartReason = rtcData.lastRestartReason
                /\ rtcMem'.lastRestartReason = rtcMem.lastRestartReason]_vars

\* the sketch runs, some time after a boot, with the reason of a WiFi
\* restart loaded from the block
WiFiReasonLoaded ==
    /\ pc = "metrics"
    /\ now > 0
    /\ rtcData.lastRestartReason = RESTART_WIFI
    /\ rtcData.totalRestarts = 1

\* C7 as stated: from a request to the end of the boot that follows,
\* totalRestarts grows by exactly 1, and no request is pending after the boot.
OneMoreRestartPerRequest ==
    [][(pc = "boot" /\ pc' = "top" /\ request.pending)
          => /\ rtcData'.totalRestarts = request.total + 1
             /\ ~forceRestart']_vars

\* C7 as amended: a restart is executed only for a pending request; from
\* the request to the end of the boot that follows, totalRestarts grows by
\* exactly 1, or is exactly 1 when a reset command zeroed the counters in
\* between, however many requests were raised; and no request is pending
\* after the boot.
OneRestartPerRequest ==
    /\ [][(pc = "top" /\ pc' = "boot") => (forceRestart /\ request.pending)]_vars
    /\ [][(pc = "boot" /\ pc' = "top" /\ request.pending)
             => /\ rtcData'.totalRestarts
                      = (IF request.reset THEN 0 ELSE request.total) + 1
                /\ ~forceRestart']_vars

\* a request raised after an earlier restart has been carried out, with a
\* reset command processed in between
RestartAfterReset ==
    /\ pc = "boot"
    /\ request.pending
    /\ request.reset
    /\ request.total = 1
    /\ rtcMem.totalRestarts = 1

\* C8: a pending restart request is eventually carried out (while the model
\* still restarts), and no step other than the restart takes the request back.
RestartCarriedOut ==
    /\ (forceRestart /\ rtcData.totalRestarts < MaxRestarts) ~> (pc = "boot")
    /\ [][(forceRestart /\ pc' # "boot") => forceRestart']_vars

\* a request of the memory check, followed by a reset command, has been
\* carried out
MemoryRequestSurvivedReset ==
    /\ pc = "boot"
    /\ request.pending
    /\ request.reset
    /\ request.reason = RESTART_MEMORY

\* C9: the WiFi manager raises its restart request at the fifth failed
\* connection attempt in a row and not before, and only a failed WiFi
\* connection attempt moves the failure counter toward the threshold.
WiFiEscalationAtFifthFailure ==
    /\ [][(wifiFailedAttempts' = wifiFailedAttempts + 1)
             => ((forceRestart' /\ pendingRestartReason' = RESTART_WIFI)
                    <=> wifiFailedAttempts' >= wifiFailureLimit)]_vars
    /\ [][(consecutiveFailures' > consecutiveFailures)
             => wifiFailedAttempts' = wifiFailedAttempts + 1]_vars

\* C10: a successful MQTT connection attempt does not bring the link closer
\* to its escalation: it does not raise the count that is compared with the
\* limit of 50.
MqttSuccessNotCounted ==
    [][(pc = "mqtt" /\ ~mqttConn /\ mqttConn')
          => mqttReconnectCount' <= mqttReconnectCount]_vars

\* C11: the WAITING to POURING transition never happens before coffeeWaitTime
\* has really elapsed since WAITING was entered, whatever the value of the
\* wrapping counter at which it was entered, and it happens at the first
\* iteration of loop() at which coffeeWaitTime has elapsed.
PourOnlyAfterHeatDuration ==
    [][/\ (currentState = "WAITING" /\ currentState' = "POURING")
             => TimeDiff(now, eventStartTime) >= coffeeWaitTime
       /\ (pc = "coffee" /\ pc' # pc /\ currentState = "WAITING"
             /\ TimeDiff(now, eventStartTime) >= coffeeWaitTime)
             => currentState' = "POURING"]_vars

\* C12: coffeePouredCount is incremented by exactly 1 per completed
\* IDLE-WAITING-POURING-IDLE cycle and by nothing else: it changes only by the
\* +1 of a dispense or by a zeroing; a dispense starts only from WAITING and
\* ends in IDLE with the count one higher, and WAITING is entered only from
\* IDLE by an accepted "on" command, so each accepted start leads to at most
\* one dispense.
CountIsNumberOfDispenses ==
    [][/\ (coffeePouredCount' # coffeePouredCount)
             => \/ coffeePouredCount' = 0
                \/ /\ currentState = "POURING"
                   /\ currentState' = "IDLE"
                   /\ coffeePouredCount' = coffeePouredCount + 1
       /\ (currentState = "POURING" /\ pc' # pc)
             => /\ currentState' = "IDLE"
                /\ coffeePouredCount' = coffeePouredCount + 1
       /\ (currentState # "POURING" /\ currentState' = "POURING")
             => currentState = "WAITING"
       /\ (currentState # "WAITING" /\ currentState' = "WAITING")
             => /\ currentState = "IDLE"
                /\ received' = "on"
                /\ powerOnPulses' = powerOnPulses + 1]_vars

\* two cycles have been completed in one session
TwoCupsPoured ==
    coffeePouredCount = 2 /\ powerOnPulses = 2 /\ currentState = "IDLE"

\* C13: an "on" command received in IDLE moves the state to WAITING, records
\* eventStartTime as the current time and pulses the power-on relay exactly
\* once, without changing coffeePouredCount, the restart request or the RTC
\* record.
StartAcceptedInIdle ==
    [][(pc' # pc /\ received' = "on" /\ currentState = "IDLE")
          => /\ currentState' = "WAITING"
             /\ eventStartTime' = now
             /\ powerOnPulses' = powerOnPulses + 1
             /\ UNCHANGED << coffeePouredCount, forceRestart,
                             pendingRestartReason, rtcData, rtcMem >>]_vars

\* an "on" command has just been accepted, some time after the boot
StartJustAccepted ==
    /\ received = "on"
    /\ currentState = "WAITING"
    /\ eventStartTime = now
    /\ now > 0
    /\ powerOnPulses = 1

\* C14: an "on" command received in WAITING or POURING is ignored and not
\* queued: it leaves the brew state, eventStartTime, coffeePouredCount, the
\* RTC record and the restart request unchanged and does not pulse the
\* power-on relay; and no later step starts a cycle on its behalf (WAITING is
\* entered only by the step that receives "on" in IDLE).
StartIgnoredOutsideIdle ==
    [][/\ (pc' # pc /\ received' = "on" /\ currentState # "IDLE")
             => UNCHANGED << currentState, eventStartTime, coffeePouredCount,
                             rtcData, rtcMem, forceRestart,
                             pendingRestartReason, powerOnPulses >>
       /\ (currentState # "WAITING" /\ currentState' = "WAITING")
             => (pc' # pc /\ received' = "on" /\ currentState = "IDLE")]_vars

\* a second "on" command has just arrived in the middle of the heating time
StartJustIgnored ==
    /\ received = "on"
    /\ delivered = 2
    /\ currentState = "WAITING"
    /\ TimeDiff(now, eventStartTime) > 0
    /\ powerOnPulses = 1

\* C15: when the state-timeout guard fires (checkStateTimeout finds the state
\* other than IDLE and timeElapsed(eventStartTime, stateTimeout) true), the
\* state becomes IDLE, coffeePouredCount is unchanged, no cup is poured and no
\* restart request is raised.
StateTimeoutOnlyResetsState ==
    [][(pc = "timeout" /\ pc' # pc /\ currentState # "IDLE"
          /\ timeElapsed(eventStartTime, stateTimeout))
          => /\ currentState' = "IDLE"
             /\ pc' = "metrics"
             /\ UNCHANGED << coffeePouredCount, forceRestart,
                             pendingRestartReason, request, rtcData, rtcMem,
                             eventStartTime, powerOnPulses >>]_vars

\* the guard has fired on the cycle that the wrap of the counter caught
\* between handleCoffeeProcess() and checkStateTimeout()
StateTimeoutFired ==
    /\ pc = "metrics"
    /\ currentState = "IDLE"
    /\ eventStartTime = MillisMod - 1
    /\ now = 0
    /\ coffeePouredCount = 0
    /\ delivered = 0

\* C16: the brew state machine never gets stuck: with loop() scheduled fairly
\* and the clock advancing for at least coffeeWaitTime after WAITING was
\* entered, every state in which the brew state is not IDLE is followed by one
\* in which it is IDLE; and after checkStateTimeout() no iteration of loop()
\* is left with a state other than IDLE that was entered stateTimeout or
\* longer ago.
BrewNeverStuck ==
    /\ []((pc = "metrics" /\ currentState # "IDLE")
             => TimeDiff(now, eventStartTime) < stateTimeout)
    /\ (/\ currentState # "IDLE"
        /\ TimeDiff(eventStartTime, bootTime) + coffeeWaitTime <= MaxUptime
        /\ rtcData.totalRestarts < MaxRestarts)
          ~> (currentState = "IDLE")

\* a cycle started late enough to be watched to its end has ended in IDLE
\* by its dispense
CycleEndedByDispense ==
    /\ currentState = "IDLE"
    /\ pc = "timeout"
    /\ coffeePouredCount = 1
    /\ powerOnPulses = 1
    /\ TimeDiff(now, eventStartTime) >= coffeeWaitTime
    /\ TimeDiff(eventStartTime, bootTime) > 0

\* start times and intervals at which timeElapsed is looked at: both sides
\* of the wrap of the counter, and the intervals of the brew timers
ClockSamples ==
    { 0, 1, coffeeWaitTime, MillisMod - stateTimeout, MillisMod - coffeeWaitTime,
      MillisMod - wifiCheckInterval, MillisMod - 1 }

IntervalSamples == { 0, wifiCheckInterval, coffeeWaitTime, stateTimeout }

\* C17: for every start time and interval, at every value of the clock,
\* timeElapsed(since, interval) is true if and only if the wrapped difference
\* (now - since) mod 2^32 is at least interval, and it is true whenever
\* now < since.
ElapsedIffWrappedDifference ==
    \A since \in ClockSamples, interval \in IntervalSamples :
       /\ timeElapsed(since, interval) <=> (TimeDiff(now, since) >= interval)
       /\ (now < since) => timeElapsed(since, interval)

\* C18: the health check looks at its conditions in a fixed order and stops
\* at the first that holds: metrics not published for maxSilentTime requests
\* RESTART_HEALTH; otherwise no MQTT activity for maxMQTTSilentTime requests
\* RESTART_MQTT; otherwise more than 20 WiFi reconnects request RESTART_WIFI;
\* otherwise more than 50 MQTT reconnects request RESTART_MQTT; when none
\* holds the check leaves the restart request alone.
HealthConditionsInOrder ==
    [][(pc' = pc /\ healthTimer' # healthTimer)
          => LET stale  == timeElapsed(lastSuccessfulMetrics, maxSilentTime)
                 silent == timeElapsed(lastMQTTMessage, maxMQTTSilentTime)
                 wifiFlaps == wifiReconnectCount > wifiReconnectLimit
                 mqttFlaps == mqttReconnectCount > mqttReconnectLimit
                 requested(reason) == /\ forceRestart'
                                      /\ pendingRestartReason' = reason
             IN  /\ stale => requested(RESTART_HEALTH)
                 /\ (~stale /\ silent) => requested(RESTART_MQTT)
                 /\ (~stale /\ ~silent /\ wifiFlaps) => requested(RESTART_WIFI)
                 /\ (~stale /\ ~silent /\ ~wifiFlaps /\ mqttFlaps)
                       => requested(RESTART_MQTT)
                 /\ (~stale /\ ~silent /\ ~wifiFlaps /\ ~mqttFlaps)
                       => UNCHANGED << forceRestart, pendingRestartReason >>]_vars

\* the check has run with all four conditions true and has asked for a
\* restart for the first of them
HealthWinsOverTheOthers ==
    /\ healthTimer = now
    /\ forceRestart
    /\ pendingRestartReason = RESTART_HEALTH
    /\ TimeDiff(now, lastSuccessfulMetrics) >= maxSilentTime
    /\ TimeDiff(now, lastMQTTMessage) >= maxMQTTSilentTime
    /\ wifiReconnectCount > wifiReconnectLimit
    /\ mqttReconnectCount > mqttReconnectLimit

\* C19 as stated: at every health check in which none of the four restart
\* conditions holds, the daily rollover happens exactly when
\* timeElapsed(bootTime, 24 h) is true; the rollover zeroes both reconnect
\* counters, sets bootTime to now and leaves the RTC record unchanged.
RolloverByClockPredicate ==
    [][(/\ pc' = pc
        /\ healthTimer' # healthTimer
        /\ ~timeElapsed(lastSuccessfulMetrics, maxSilentTime)
        /\ ~timeElapsed(lastMQTTMessage, maxMQTTSilentTime)
        /\ wifiReconnectCount <= wifiReconnectLimit
        /\ mqttReconnectCount <= mqttReconnectLimit)
          => /\ IF timeElapsed(bootTime, dayInterval)
                THEN /\ wifiReconnectCount' = 0
                     /\ mqttReconnectCount' = 0
                     /\ bootTime' = now
                ELSE UNCHANGED << wifiReconnectCount, mqttReconnectCount,
                                  bootTime >>
             /\ UNCHANGED << rtcData, rtcMem >>]_vars

\* C19 as amended: at every health check in which none of the four restart
\* conditions holds, the daily rollover happens exactly when the wrapped
\* difference now - bootTime is greater than 24 h; the rollover zeroes both
\* reconnect counters, sets bootTime to now and leaves the RTC record
\* unchanged.
RolloverAfterMoreThanADay ==
    [][(/\ pc' = pc
        /\ healthTimer' # healthTimer
        /\ ~timeElapsed(lastSuccessfulMetrics, maxSilentTime)
        /\ ~timeElapsed(lastMQTTMessage, maxMQTTSilentTime)
        /\ wifiReconnectCount <= wifiReconnectLimit
        /\ mqttReconnectCount <= mqttReconnectLimit)
          => /\ IF TimeDiff(now, bootTime) > dayInterval
                THEN /\ wifiReconnectCount' = 0
                     /\ mqttReconnectCount' = 0
                     /\ bootTime' = now
                ELSE UNCHANGED << wifiReconnectCount, mqttReconnectCount,
                                  bootTime >>
             /\ UNCHANGED << rtcData, rtcMem >>]_vars

\* the check has rolled the day over
DayRolledOver ==
    /\ healthTimer = now
    /\ bootTime = now
    /\ wifiReconnectCount = 0
    /\ mqttReconnectCount = 0
    /\ ~forceRestart
    /\ rtcData = initRTCData

\* C20: the health check writes only the restart request, the two reconnect
\* counters and bootTime: it leaves the brew state, eventStartTime,
\* coffeePouredCount, the RTC record, consecutiveFailures,
\* lastSuccessfulMetrics and lastMQTTMessage unchanged.
HealthCheckFrame ==
    [][(pc' = pc /\ healthTimer' # healthTimer)
          => UNCHANGED << currentState, eventStartTime, coffeePouredCount,
                          rtcData, rtcMem, consecutiveFailures,
                          lastSuccessfulMetrics, lastMQTTMessage >>]_vars

\* the check has run in the middle of a brew cycle, with a cup counted and a
\* failure pending, and has rolled the day over or asked for a restart
HealthCheckedDuringBrew ==
    /\ healthTimer = now
    /\ currentState = "WAITING"
    /\ coffeePouredCount = 1
    /\ consecutiveFailures = 1
    /\ (forceRestart \/ bootTime = now)

\* a record whose restart counters and all-time brew count are all 0
CountersAreZero(r) ==
    /\ r.totalRestarts = 0
    /\ r.watchdogRestarts = 0
    /\ r.memoryRestarts = 0
    /\ r.wifiRestarts = 0
    /\ r.mqttRestarts = 0
    /\ r.healthRestarts = 0
    /\ r.userRestarts = 0
    /\ r.unknownRestarts = 0
    /\ r.coffeePouredTotal = 0

\* the CRC-32 of the fields after crc32 is what the crc32 field holds
BlockValidates(r) == calculateCRC32(PayloadBytes(r), PayloadSize) = r.crc32

\* C22: the load at boot always goes through; when the block does not
\* validate, the record is initialised (every restart counter and the
\* all-time brew count 0, lastRestartReason RESTART_POWER_ON) and written,
\* so that the block validates afterwards; when it validates, the record
\* is the block and the block is left as it is
LoadFailureReinitialises ==
    /\ [](pc = "boot" => ENABLED StoreLoad)
    /\ [][(pc = "boot" /\ pc' = "store") =>
             IF BlockValidates(rtcMem)
             THEN /\ rtcData' = rtcMem
                  /\ rtcMem' = rtcMem
             ELSE /\ CountersAreZero(rtcData')
                  /\ rtcData'.lastRestartReason = RESTART_POWER_ON
                  /\ rtcMem' = rtcData'
                  /\ BlockValidates(rtcMem')]_vars

\* setup() has found a block that does not validate and has initialised
\* the record
LoadedAfterColdBoot ==
    /\ pc = "store"
    /\ CountersAreZero(rtcData)
    /\ rtcData.lastRestartReason = RESTART_POWER_ON
    /\ rtcMem = rtcData
    /\ lastCheckpoint = NoCheckpoint

\* C23: whatever the sketch has done to the record (initialised it,
\* recorded restarts, folded session counts in, reset it), the block it
\* has written validates, a load of the block gives the record that was
\* written, and while the sketch runs the block is the record in RAM
ChecksumRoundTrip ==
    (pc = "store" \/ rtcMem \notin PowerOnImages) =>
        /\ BlockValidates(rtcMem)
        /\ readRTCBlock(BlockBytes(rtcMem))
        /\ BlockData(BlockBytes(rtcMem)) = rtcMem
        /\ pc = "store" => rtcData = rtcMem

\* a block that holds a recorded restart and a brew count has been loaded
RestartRecordLoaded ==
    /\ pc = "store"
    /\ rtcData.totalRestarts = MaxRestarts
    /\ rtcData.coffeePouredTotal = MaxCoffee
    /\ rtcData.wifiRestarts = 1

\* C24: a block written by the sketch of which one byte has been changed,
\* in the crc32 field or in any field after it, does not validate: the CRC
\* of its last 40 bytes is not what its first four bytes hold, and the
\* load at boot does not take the record from it but initialises it
SingleByteCorruptionRejected ==
    [][(pc = "boot" /\ corruption # NoCorruption /\ pc' # "boot") =>
          /\ rtcUserMemoryRead # BlockBytes(rtcMem)
          /\ calculateCRC32(SubSeq(rtcUserMemoryRead, 5, BlockSize), PayloadSize)
                # BlockChecksum(rtcUserMemoryRead)
          /\ rtcData' = initRTCData
          /\ rtcMem' = initRTCData]_vars

\* the damaged block has been replaced by a fresh record at the boot
CorruptedBlockReplaced ==
    /\ pc = "store"
    /\ corruption = NoCorruption
    /\ rtcData = initRTCData
    /\ rtcMem = initRTCData
    /\ CountersAreZero(rtcData)

\* C26: as long as no supervised restart and no reset command has followed
\* the last periodic update, the block holds at least the all-time brew
\* count that update wrote, also after a hardware reset has thrown the
\* globals away; and so does the record that setup() loads after it
CheckpointSurvivesReset ==
    lastCheckpoint.written =>
        /\ rtcMem.coffeePouredTotal >= lastCheckpoint.total
        /\ BlockValidates(rtcMem)
        /\ pc # "boot" => rtcData.coffeePouredTotal >= lastCheckpoint.total

\* the sketch runs again after a hardware reset that followed a periodic
\* update, with the brews of that update in its record
BrewsKeptAcrossReset ==
    /\ pc = "store"
    /\ lastCheckpoint.written
    /\ lastCheckpoint.reset
    /\ lastCheckpoint.total = MaxCoffee
    /\ rtcData.coffeePouredTotal = MaxCoffee

\* C21: while the sketch runs, no step lowers wifiReconnectCount or
\* mqttReconnectCount, except the health check that finds the last rollover
\* more than a day ago and sets both to 0; a step that brings the station
\* up zeroes consecutiveFailures and leaves both counts as they are, and a
\* step that connects the client leaves wifiReconnectCount and
\* consecutiveFailures as they are and does not lower mqttReconnectCount
ReconnectCountsOnlyGrow ==
    [][pc' # "boot" =>
          /\ \/ /\ wifiReconnectCount' >= wifiReconnectCount
                /\ mqttReconnectCount' >= mqttReconnectCount
             \/ /\ healthTimer' # healthTimer
                /\ TimeDiff(now, bootTime) > dayInterval
                /\ wifiReconnectCount' = 0
                /\ mqttReconnectCount' = 0
          /\ (~wifiUp /\ wifiUp') =>
                /\ consecutiveFailures' = 0
                /\ wifiReconnectCount' = wifiReconnectCount
                /\ mqttReconnectCount' = mqttReconnectCount
          /\ (~mqttConn /\ mqttConn') =>
                /\ consecutiveFailures' = consecutiveFailures
                /\ wifiReconnectCount' = wifiReconnectCount
                /\ mqttReconnectCount' >= mqttReconnectCount]_vars

\* the station has just been brought up again, after failures that are
\* still counted in wifiReconnectCount
ReconnectedWithCountsKept ==
    /\ pc = "mqtt"
    /\ lastWiFiCheck = now
    /\ wifiUp
    /\ ~mqttConn
    /\ consecutiveFailures = 0
    /\ wifiReconnectCount = 3
    /\ mqttReconnectCount = 7

\* the restart counters and the last restart reason of a record
RestartFields(r) ==
    << r.totalRestarts, r.watchdogRestarts, r.memoryRestarts, r.wifiRestarts,
       r.mqttRestarts, r.healthRestarts, r.userRestarts, r.unknownRestarts,
       r.lastRestartReason >>

\* C25: the periodic update, when its interval has elapsed, adds the
\* session count to coffeePouredTotal, zeroes the session count and writes
\* the record: the sum of the two is as before, the restart counters and
\* lastRestartReason are as before, and the block is the new record with a
\* CRC that validates; when the interval has not elapsed, the record, the
\* block and the session count stay as they are
CheckpointFoldsSessionCount ==
    [][pc = "rtc" /\ pc' = "loop4" =>
          IF timeElapsed(lastRTCUpdate, rtcUpdateInterval)
          THEN /\ rtcData'.coffeePouredTotal =
                      rtcData.coffeePouredTotal + coffeePouredCount
               /\ coffeePouredCount' = 0
               /\ rtcData'.coffeePouredTotal + coffeePouredCount' =
                      rtcData.coffeePouredTotal + coffeePouredCount
               /\ RestartFields(rtcData') = RestartFields(rtcData)
               /\ rtcMem' = rtcData'
               /\ BlockValidates(rtcMem')
               /\ lastRTCUpdate' = now
          ELSE UNCHANGED << rtcData, rtcMem, coffeePouredCount, lastRTCUpdate >>]_vars

\* the periodic update has just folded the cups of the session into a
\* record that held a cup and a restart already
SessionCountFolded ==
    /\ pc = "loop4"
    /\ lastRTCUpdate = now
    /\ lastCheckpoint.written
    /\ rtcData.coffeePouredTotal = MaxCoffee + 1
    /\ coffeePouredCount = 0
    /\ rtcData.wifiRestarts = 1
    /\ rtcMem = rtcData

\* C27: a reset command handed to callback(), in a brew cycle or not, with
\* a restart request pending or not, leaves the state IDLE, the session
\* count 0 and the record as initRTCData makes it (every restart counter
\* and the all-time brew count 0, lastRestartReason RESTART_POWER_ON, the
\* block written with a CRC that validates); no relay is pulsed, no cup is
\* counted, and the request slot is as it was
ResetCommandReinitialises ==
    [][(delivered' = delivered + 1 /\ received' = "reset") =>
          /\ currentState' = "IDLE"
          /\ coffeePouredCount' = 0
          /\ CountersAreZero(rtcData')
          /\ rtcData'.lastRestartReason = RESTART_POWER_ON
          /\ rtcData' = initRTCData
          /\ rtcMem' = rtcData'
          /\ BlockValidates(rtcMem')
          /\ powerOnPulses' = powerOnPulses
          /\ pc' # "pouring"
          /\ forceRestart' = forceRestart
          /\ pendingRestartReason' = pendingRestartReason]_vars

\* a reset command has ended a brew cycle that followed a first cup, while
\* a request of checkMemory() was pending
ResetDuringBrewCycle ==
    /\ pc = "coffee"
    /\ received = "reset"
    /\ currentState = "IDLE"
    /\ coffeePouredCount = 0
    /\ powerOnPulses = 2
    /\ rtcData = initRTCData
    /\ forceRestart
    /\ pendingRestartReason = RESTART_MEMORY

\* C28: one sendPeriodicMetrics() makes at most 3 client.publish() calls;
\* every call before the last one has failed with the connection kept, so
\* the loop stops at the first success and at the first failure that finds
\* the connection lost, and otherwise goes on to the third call; it makes
\* no call when the interval has not elapsed or a link is down, and at
\* least one otherwise; lastSuccessfulMetrics becomes the current time
\* when the last call succeeded and stays as it is in every other case
PublishRetriesBounded ==
    [][pc = "metrics" /\ pc' = "loop3" =>
          LET calls == publishAttempts'
              n == Len(calls)
          IN  /\ n <= 3
              /\ \A i \in 1 .. n - 1 : calls[i] = "fail"
              /\ (n > 0 /\ n < 3) => calls[n] \in {"ok", "lost"}
              /\ n > 0 <=> /\ timeElapsed(lastAliveTime, aliveInterval)
                           /\ wifiUp
                           /\ mqttConn
              /\ IF n > 0 /\ calls[n] = "ok"
                 THEN lastSuccessfulMetrics' = now
                 ELSE lastSuccessfulMetrics' = lastSuccessfulMetrics]_vars

\* the payload has been published at the third attempt
PublishedAtThirdAttempt ==
    /\ pc = "loop3"
    /\ publishAttempts = << "fail", "fail", "ok" >>
    /\ lastSuccessfulMetrics = now
    /\ lastAliveTime = now
    /\ consecutiveFailures = 0

\* C29: checkWiFiConnection() does nothing unless wifiCheckInterval (30 s)
\* has passed on the clock since the last check, and no MQTT connection
\* attempt is made unless mqttRetryInterval (5 s) has passed since the last
\* attempt, the station is up and the client is not connected
LinkPollsKeepTheirIntervals ==
    [][/\ (pc = "wifi" /\ pc' = "mqtt"
              /\ TimeDiff(now, lastWiFiCheck) < wifiCheckInterval) =>
             UNCHANGED << lastWiFiCheck, wifiUp, wifiReconnectCount,
                          consecutiveFailures, now >>
       /\ (pc = "mqtt" /\ pc' = "loop2"
              /\ (mqttReconnectCount' # mqttReconnectCount
                     \/ lastMQTTAttempt' # lastMQTTAttempt
                     \/ mqttConn' # mqttConn)) =>
             /\ TimeDiff(now, lastMQTTAttempt) >= mqttRetryInterval
             /\ wifiUp
             /\ ~mqttConn]_vars

\* C30: a dispense that has started always ends: while pourCoffee() blocks,
\* the only other thing that runs is the Ticker callback, which leaves the
\* brew state and the session count alone; pourCoffee() then counts
\* exactly one cup and returns to IDLE, with the request slot as it found
\* it; and a restart is carried out at the top of loop() only, never from
\* the POURING state
DispenseRunsToCompletion ==
    /\ [](pc = "pouring" => (currentState = "POURING" /\ ENABLED pourCoffee))
    /\ [][pc = "pouring" =>
             \/ /\ pc' = "pouring"
                /\ healthTimer' # healthTimer
                /\ UNCHANGED << currentState, coffeePouredCount, powerOnPulses,
                                rtcData, rtcMem >>
             \/ /\ pc' = "timeout"
                /\ coffeePouredCount' = coffeePouredCount + 1
                /\ currentState' = "IDLE"
                /\ UNCHANGED << forceRestart, pendingRestartReason >>]_vars
    /\ [][pc' = "boot" => (pc = "top" /\ currentState # "POURING")]_vars

\* the second cup has been dispensed although the health check has raised
\* a restart request in the cycle
DispensedWithRequestPending ==
    /\ pc = "timeout"
    /\ currentState = "IDLE"
    /\ coffeePouredCount = 2
    /\ powerOnPulses = 2
    /\ forceRestart
    /\ pendingRestartReason = RESTART_HEALTH
    /\ healthTimer = now

\* C31: a message handed to callback() that is none of on, reset and
\* restart (ping, or any other text) refreshes lastMQTTMessage and leaves
\* everything else as it is: the brew state and its start time, the
\* session count, the relays, the record and its block, the request slot,
\* the links and their counters, and the other timestamps
OtherCommandsOnlyRefreshActivity ==
    [][(delivered' = delivered + 1
           /\ received' \notin {"on", "reset", "restart"}) =>
          /\ lastMQTTMessage' = now
          /\ UNCHANGED << currentState, eventStartTime, coffeePouredCount,
                          powerOnPulses, rtcData, rtcMem, forceRestart,
                          pendingRestartReason, request, consecutiveFailures,
                          wifiReconnectCount, mqttReconnectCount,
                          lastSuccessfulMetrics, bootTime, lastAliveTime,
                          lastMemoryCheck, lastWiFiCheck, lastMQTTAttempt,
                          lastRTCUpdate, now, wifiUp, mqttConn >>]_vars

\* a ping has arrived in a brew cycle, while a request was pending
PingDuringBrewCycle ==
    /\ pc = "coffee"
    /\ received = "ping"
    /\ currentState = "WAITING"
    /\ coffeePouredCount = 1
    /\ lastMQTTMessage = now
    /\ forceRestart
    /\ pendingRestartReason = RESTART_MEMORY
    /\ rtcData.wifiRestarts = 1

\* C32: a checkMemory() that is due takes one heap reading and requests a
\* restart with reason Memory exactly when the free heap is below
\* minFreeHeap or the fragmentation above maxFragmentation, a checkMemory()
\* that is not due or reads a healthy heap leaves the request slot alone,
\* and the restart executed for a request that checkMemory() raised is
\* recorded with lastRestartReason = RESTART_MEMORY and memoryRestarts one
\* higher.
MemoryFaultRestartsAsMemory ==
    /\ [][(pc = "memory" /\ pc' = "rtc") =>
            IF now - lastMemoryCheck >= memoryCheckInterval
            THEN /\ Len(heapSeen') = 1
                 /\ LET h == heapSeen'[1]
                    IN  IF h.freeHeap < 1000
                           \/ 100 - (h.maxFreeBlockSize * 100) \div h.freeHeap > 85
                        THEN /\ forceRestart'
                             /\ pendingRestartReason' = RESTART_MEMORY
                        ELSE UNCHANGED << forceRestart, pendingRestartReason >>
            ELSE /\ heapSeen' = << >>
                 /\ UNCHANGED << forceRestart, pendingRestartReason >>]_vars
    /\ [][(pc = "top" /\ pc' = "boot" /\ request.pending
              /\ request.reason = RESTART_MEMORY) =>
            /\ rtcMem'.lastRestartReason = RESTART_MEMORY
            /\ rtcMem'.memoryRestarts = rtcData.memoryRestarts + 1]_vars

\* C33: the wait of setupWiFi() always ends, from every start time up to
\* the wrap of millis() and with a station that never comes up: it never
\* lasts longer than wifiTimeout, the watchdog has been fed once for every
\* delay(500) waited, and at its end either the station is up and the
\* failures are zeroed, or one failure and one reconnection are counted.
WiFiWaitTerminates ==
    /\ (pc = "wifiWait") ~> (pc = "wifiDone")
    /\ [](pc = "wifiWait" =>
            /\ TimeDiff(now, startAttempt) <= wifiTimeout
            /\ wdtFeeds * 500 = TimeDiff(now, startAttempt) * Unit)
    /\ [][(pc = "wifiWait" /\ pc' = "wifiWait") =>
            /\ ~wifiUp
            /\ wdtFeeds' > wdtFeeds]_vars
    /\ [][(pc = "wifiWait" /\ pc' = "wifiDone") =>
            /\ wifiUp \/ TimeDiff(now, startAttempt) = wifiTimeout
                      \/ now < startAttempt
            /\ IF wifiUp'
               THEN /\ consecutiveFailures' = 0
                    /\ wifiReconnectCount' = wifiReconnectCount
               ELSE /\ consecutiveFailures' = consecutiveFailures + 1
                    /\ wifiReconnectCount' = wifiReconnectCount + 1]_vars

\* the wait began less than wifiTimeout before the wrap, the station never
\* came up, and the wait has ended at the wrap as one failed attempt
WaitEndedAtTheWrap ==
    /\ pc = "wifiDone" /\ ~wifiUp /\ ~apUp
    /\ startAttempt = MillisMod - 3 /\ now = 0
    /\ wdtFeeds = 3 * (Unit \div 500)
    /\ consecutiveFailures = 3 /\ wifiReconnectCount = 2

WiFiRequestOnlyAfterFailedReconnect ==
    /\ [][(pc = "wifi" /\ pc' = "mqtt") =>
            IF /\ timeElapsed(lastWiFiCheck, wifiCheckInterval)
               /\ ~wifiUp /\ ~wifiUp'
               /\ wifiFailedAttempts' = wifiFailedAttempts + 1
            THEN \/ UNCHANGED << forceRestart, pendingRestartReason, request >>
                 \/ /\ forceRestart'
                    /\ pendingRestartReason' = RESTART_WIFI
            ELSE UNCHANGED << forceRestart, pendingRestartReason, request >>]_vars
    /\ [][(pc = "metrics" /\ pc' = "loop3") =>
            UNCHANGED << forceRestart, pendingRestartReason, request >>]_vars

\* the check was due at the first iteration after the wrap, the station
\* stayed down through setupWiFi() and the request for RESTART_WIFI is up
WiFiRequestAfterFailedReconnect ==
    /\ pc = "mqtt" /\ ~wifiUp /\ forceRestart
    /\ pendingRestartReason = RESTART_WIFI
    /\ request.pending /\ request.reason = RESTART_WIFI
    /\ lastWiFiCheck = 0 /\ now = wifiTimeout
    /\ wifiFailedAttempts = 1 /\ consecutiveFailures = wifiFailureLimit

\* C36: while the sketch runs, lastMQTTMessage changes only when callback()
\* is handed a message and when reconnectMQTT() connects, and then to
\* millis(); a publish that succeeds sets lastSuccessfulMetrics and leaves
\* it alone.  So a health check that finds both links up, the metrics
\* published within maxSilentTime and lastMQTTMessage maxMQTTSilentTime old
\* requests RESTART_MQTT.
SilentBusRestartsAsMqtt ==
    /\ [][(lastMQTTMessage' # lastMQTTMessage /\ pc # "boot" /\ pc' # "boot") =>
            /\ lastMQTTMessage' = now
            /\ \/ delivered' = delivered + 1
               \/ /\ ~mqttConn /\ mqttConn'
                  /\ mqttReconnectCount' = mqttReconnectCount + 1]_vars
    /\ [][(Len(publishAttempts') > 0
              /\ publishAttempts'[Len(publishAttempts')] = "ok") =>
            /\ lastSuccessfulMetrics' = now
            /\ lastMQTTMessage' = lastMQTTMessage]_vars
    /\ [][(/\ pc' = pc /\ healthTimer' # healthTimer
           /\ wifiUp /\ mqttConn
           /\ lastSuccessfulMetrics <= now
           /\ now - lastSuccessfulMetrics < maxSilentTime
           /\ lastMQTTMessage <= now
           /\ now - lastMQTTMessage >= maxMQTTSilentTime) =>
            /\ forceRestart'
            /\ pendingRestartReason' = RESTART_MQTT]_vars

\* the metrics have just been published, nothing has come in for
\* maxMQTTSilentTime, and the health check has asked for RESTART_MQTT
SilentBusRestartRequested ==
    /\ forceRestart /\ pendingRestartReason = RESTART_MQTT
    /\ request.pending /\ request.reason = RESTART_MQTT
    /\ wifiUp /\ mqttConn /\ delivered = MaxMessages
    /\ lastSuccessfulMetrics = now
    /\ now - lastMQTTMessage = maxMQTTSilentTime
    /\ healthTimer = now

\* C37: currentState is POURING only between the start and the end of
\* pourCoffee(): wherever callback(), handleCoffeeProcess(),
\* checkStateTimeout() or sendPeriodicMetrics() is about to run it is IDLE
\* or WAITING, no message is handed to callback() in POURING and no payload
\* is published in POURING.
PouringOnlyInsideDispense ==
    /\ [](currentState = "POURING" => pc = "pouring")
    /\ [](pc \in { "loop1", "loop2", "loop3", "loop4", "coffee", "timeout",
                   "metrics" }
             => currentState \in { "IDLE", "WAITING" })
    /\ [][(delivered' = delivered + 1) =>
            currentState \in { "IDLE", "WAITING" }]_vars
    /\ [][(Len(publishAttempts') > 0) =>
            currentState \in { "IDLE", "WAITING" }]_vars

\* the dispense has just ended at the end of the heating time and
\* checkStateTimeout() is about to read the state
IdleAgainBeforeTimeoutCheck ==
    /\ pc = "timeout" /\ currentState = "IDLE"
    /\ coffeePouredCount = 1 /\ powerOnPulses = 1
    /\ TimeDiff(now, eventStartTime) = coffeeWaitTime
    /\ ~forceRestart

\* C38: at one clock value the condition of checkStateTimeout() implies the
\* condition of handleCoffeeProcess(), coffeeWaitTime being shorter than
\* stateTimeout; so a brew cycle that checkStateTimeout() would end has
\* been poured by the handleCoffeeProcess() before it, the state is IDLE
\* again at the same clock value, and checkStateTimeout() never ends a
\* cycle in WAITING.
GuardSilentAtOneClockValue ==
    /\ [](timeElapsed(eventStartTime, stateTimeout)
             => timeElapsed(eventStartTime, coffeeWaitTime))
    /\ [][(pc = "coffee" /\ pc' # pc /\ currentState = "WAITING"
              /\ timeElapsed(eventStartTime, stateTimeout)) =>
            pc' = "pouring"]_vars
    /\ [][(pc = "pouring" /\ pc' = "timeout") =>
            /\ currentState' = "IDLE"
            /\ now' = now]_vars
    /\ [][(pc = "timeout" /\ pc' = "metrics") =>
            /\ ~(currentState = "WAITING"
                   /\ timeElapsed(eventStartTime, stateTimeout))
            /\ currentState' = currentState]_vars

\* a cycle begun just before the wrap met both conditions at the first
\* iteration after it: it was poured, and checkStateTimeout() found IDLE
PouredBeforeTheGuardLooked ==
    /\ pc = "metrics" /\ currentState = "IDLE"
    /\ now = 0 /\ eventStartTime = MillisMod - 1
    /\ coffeePouredCount = 1 /\ powerOnPulses = 1
====
